---- MODULE Spec2Model ----
(***************************************************************************)
(* Retrieval-and-citation pipeline of the matrix chat backend:             *)
(*   routers/chat.py            chat, chat_stream, _enrich_citations,       *)
(*                              _clean_citation_leakage,                    *)
(*                              _normalize_citations, _parse_citations      *)
(*   state/store.py             StateStore                                  *)
(*   services/matrix_retriever.py, services/document_retriever.py           *)
(*                                                                         *)
(* Text is a sequence of atoms.  An atom is one character, except that the *)
(* literal words the regular expressions look for ("Doc", "Cell",          *)
(* "doc_id=") are single atoms: no pattern of the code can match a part of *)
(* them.  " " stands for any whitespace character, "x" for any character   *)
(* that no pattern names.                                                  *)
(***************************************************************************)
EXTENDS Integers, Sequences, FiniteSets, TLC

VARIABLES
    content,        \* argument: response text of the model
    raw_citations,  \* argument: citation dicts of the model
    cell_map,       \* argument: 1-based map of the cell matches sent to the model
    doc_map,        \* argument: 1-based map of the document chunks sent to the model
    result,         \* what the function under analysis returned
    store,          \* StateStore: _documents, _metrics, _cells (dicts in insertion order)
    chat_history,   \* StateStore._chat_history: session_id -> list of messages
    req             \* the chat requests in flight: position, locals, output

vars == <<content, raw_citations, cell_map, doc_map, result,
          store, chat_history, req>>

\* StateStore.__init__
EmptyStore == [documents |-> <<>>, metrics |-> <<>>, cells |-> <<>>]

\* no request is served while a function is analysed on its own
NoServer == store = EmptyStore /\ chat_history = <<>> /\ req = <<>>

Pending == [status |-> "pending"]

----------------------------------------------------------------------------
(* Bounds *)

MaxPieces == 3      \* pieces concatenated into one response text
MaxCits   == 2      \* raw citations in one model reply
MaxMap    == 2      \* entries of cell_map and of doc_map
MaxReqs   == 2      \* chat requests served by the process
MaxChunks == 2      \* text chunks of one streamed model answer
MaxMetrics == 2     \* metrics of the matrix searched on its own
MaxDocs   == 2      \* documents searched by the document retriever on its own
MaxTop    == 2      \* max_chunks given to DocumentRetriever.retrieve
MaxMatches == 4     \* matches given to has_sufficient_data
MaxThreshold == 3   \* threshold given to has_sufficient_data
MaxHistory == 3     \* messages in the log of one session
MaxLimit  == 4      \* the limit given to get_chat_history

----------------------------------------------------------------------------
(* Text atoms and the regular expressions of routers/chat.py *)

Digit == {"1", "2", "3"}
Leak  == {"Doc", "Cell"}

RECURSIVE SkipWs(_, _)
\* \s* (greedy): first position >= i that holds no whitespace
SkipWs(t, i) ==
    IF i <= Len(t) /\ t[i] = " " THEN SkipWs(t, i + 1) ELSE i

RECURSIVE SkipDigits(_, _)
\* \d* (greedy): first position >= i that holds no digit
SkipDigits(t, i) ==
    IF i <= Len(t) /\ t[i] \in Digit THEN SkipDigits(t, i + 1) ELSE i

RECURSIVE FindClose(_, _)
\* [^)]*\) : position after the first ")" at or after i, 0 when there is none
FindClose(t, i) ==
    IF i > Len(t) THEN 0
    ELSE IF t[i] = ")" THEN i + 1
    ELSE FindClose(t, i + 1)

Slice(t, a, b) == IF a > b THEN <<>> ELSE SubSeq(t, a, b)

\* \[(Doc|Cell)\s*(\d+)\] matched at i: [end |-> position after "]", num |-> group 2]
\* end = 0 when the pattern does not match at i
MatchLeakMarker(t, i) ==
    IF i + 1 <= Len(t) /\ t[i] = "[" /\ t[i + 1] \in Leak
    THEN LET d == SkipWs(t, i + 2)
             e == SkipDigits(t, d)
         IN  IF e > d /\ e <= Len(t) /\ t[e] = "]"
             THEN [end |-> e + 1, num |-> Slice(t, d, e - 1)]
             ELSE [end |-> 0, num |-> <<>>]
    ELSE [end |-> 0, num |-> <<>>]

\* pattern = \[(Doc|Cell)\s*(\d+)\]\s*\([^)]*\)
MatchPattern1(t, i) ==
    LET m == MatchLeakMarker(t, i)
    IN  IF m.end = 0 THEN m
        ELSE LET p == SkipWs(t, m.end)
             IN  IF p <= Len(t) /\ t[p] = "("
                 THEN [end |-> FindClose(t, p + 1), num |-> m.num]
                 ELSE [end |-> 0, num |-> <<>>]

\* pattern2 = \[(Doc|Cell)\s*(\d+)\]
MatchPattern2(t, i) == MatchLeakMarker(t, i)

\* \s*\(doc_id=[^)]*\)
MatchPattern3(t, i) ==
    LET p == SkipWs(t, i)
    IN  IF p + 1 <= Len(t) /\ t[p] = "(" /\ t[p + 1] = "doc_id="
        THEN [end |-> FindClose(t, p + 2), num |-> <<>>]
        ELSE [end |-> 0, num |-> <<>>]

\* ref_pattern = \[(\d+)\]
MatchRef(t, i) ==
    IF i <= Len(t) /\ t[i] = "["
    THEN LET e == SkipDigits(t, i + 1)
         IN  IF e > i + 1 /\ e <= Len(t) /\ t[e] = "]"
             THEN [end |-> e + 1, num |-> Slice(t, i + 1, e - 1)]
             ELSE [end |-> 0, num |-> <<>>]
    ELSE [end |-> 0, num |-> <<>>]

Bracket(num) == <<"[">> \o num \o <<"]">>

RECURSIVE SubPattern1(_, _)
\* re.sub(pattern, r'[\2]', content), scanning from i
SubPattern1(t, i) ==
    IF i > Len(t) THEN <<>>
    ELSE LET m == MatchPattern1(t, i)
         IN  IF m.end > 0 THEN Bracket(m.num) \o SubPattern1(t, m.end)
             ELSE <<t[i]>> \o SubPattern1(t, i + 1)

RECURSIVE SubPattern2(_, _)
\* re.sub(pattern2, r'[\2]', content), scanning from i
SubPattern2(t, i) ==
    IF i > Len(t) THEN <<>>
    ELSE LET m == MatchPattern2(t, i)
         IN  IF m.end > 0 THEN Bracket(m.num) \o SubPattern2(t, m.end)
             ELSE <<t[i]>> \o SubPattern2(t, i + 1)

RECURSIVE SubPattern3(_, _)
\* re.sub(r'\s*\(doc_id=[^)]*\)', '', content), scanning from i
SubPattern3(t, i) ==
    IF i > Len(t) THEN <<>>
    ELSE LET m == MatchPattern3(t, i)
         IN  IF m.end > 0 THEN SubPattern3(t, m.end)
             ELSE <<t[i]>> \o SubPattern3(t, i + 1)

\* _clean_citation_leakage
CleanCitationLeakage(c) == SubPattern3(SubPattern2(SubPattern1(c, 1), 1), 1)

----------------------------------------------------------------------------
(* Response texts: concatenations of at most MaxPieces pieces *)

T_Ref(n)  == <<"[", n, "]">>
T_Leak(w, n) == <<"[", w, " ", n, "]">>
T_Meta == <<" ", "(", "doc_id=", "x", ")">>

CleanPieces ==
    { T_Leak("Doc", "1"), T_Leak("Cell", "2"), T_Meta, T_Ref("1"),
      <<"x">>, <<" ">>, <<"(", "x", ")">>,
      <<"[", "Doc", " ", "1">>, <<"]">>, <<"(">>, <<")">> }

RECURSIVE Concat(_)
Concat(ps) == IF ps = <<>> THEN <<>> ELSE Head(ps) \o Concat(Tail(ps))

TextsOver(pieces, n) ==
    { Concat(ps) : ps \in UNION { [1..k -> pieces] : k \in 0..n } }

----------------------------------------------------------------------------
(* _clean_citation_leakage applied to every text over CleanPieces *)

InitClean ==
    /\ content \in TextsOver(CleanPieces, MaxPieces)
    /\ raw_citations = <<>>
    /\ cell_map = <<>>
    /\ doc_map = <<>>
    /\ result = Pending
    /\ NoServer

Clean ==
    /\ result = Pending
    /\ result' = [status |-> "cleaned", content |-> CleanCitationLeakage(content)]
    /\ UNCHANGED <<content, raw_citations, cell_map, doc_map, store, chat_history, req>>

\* the cleanup applied to its own output
CleanAgain ==
    /\ result.status = "cleaned"
    /\ result' = [status |-> "recleaned", first |-> result.content,
                  content |-> CleanCitationLeakage(result.content)]
    /\ UNCHANGED <<content, raw_citations, cell_map, doc_map, store, chat_history, req>>

NextClean == Clean \/ CleanAgain

SpecClean == InitClean /\ [][NextClean]_vars

HasLeakMarker(t) == \E i \in 1..Len(t) : MatchLeakMarker(t, i).end > 0

HasMetaFragment(t) ==
    \E i \in 1..Len(t) : t[i] = "(" /\ MatchPattern3(t, i).end > 0

\* C5: for every content string the text returned by _clean_citation_leakage
\* holds no "[Doc n]" / "[Cell n]" marker and no "(doc_id=...)" fragment, and
\* cleaning the returned text once more changes nothing.
C5_CleanupLeavesNoLeak ==
    /\ result.status = "cleaned" =>
          /\ ~HasLeakMarker(result.content)
          /\ ~HasMetaFragment(result.content)
    /\ result.status = "recleaned" => result.content = result.first

\* C5, documented example: "[Doc 1] (doc_id=x)" comes out as "[1]"
C5_ExampleCleaned ==
    (content = T_Leak("Doc", "1") \o T_Meta /\ result.status = "cleaned")
        => result.content = T_Ref("1")

----------------------------------------------------------------------------
(* Citation dicts of the model (JSON objects) and the typed citations       *)
(*                                                                         *)
(* A raw citation is a record over all the keys the code reads.  A string  *)
(* field holds a string, NullStr (JSON null) or NoKey (key absent).  The   *)
(* index field holds IntV(n), NullV or NoKeyV.                              *)

NullStr == "<null>"
NoKey   == "<absent>"

IntV(n) == [tag |-> "int", n |-> n]
NullV   == [tag |-> "null", n |-> 0]
NoKeyV  == [tag |-> "absent", n |-> 0]

\* dict.get(key, default)
Get(v, default) == IF v = NoKey THEN default ELSE v

\* dict.get("index"): None for an absent key as for a null
GetIndex(c) == IF c.index = NoKeyV THEN NullV ELSE c.index

IsStr(v) == v # NullStr /\ v # NoKey

DigitChar(d) ==
    CASE d = 0 -> "0" [] d = 1 -> "1" [] d = 2 -> "2" [] d = 3 -> "3"
      [] d = 4 -> "4" [] d = 5 -> "5" [] d = 6 -> "6" [] d = 7 -> "7"
      [] d = 8 -> "8" [] d = 9 -> "9"

RECURSIVE Str(_)
\* str(n) of an int, as a sequence of characters
Str(n) ==
    IF n < 0 THEN <<"-">> \o Str(0 - n)
    ELSE IF n < 10 THEN <<DigitChar(n)>>
    ELSE Str(n \div 10) \o <<DigitChar(n % 10)>>

\* CellCitation(index=..., doc_id=c.get("doc_id", ""), ...): the pydantic
\* model, or Failed when a str field is given a non-string
Failed == [type |-> "failed"]

CellCitation(index, c) ==
    LET doc_id       == Get(c.doc_id, "")
        doc_name     == Get(c.doc_name, "Unknown")
        metric_id    == Get(c.metric_id, "")
        metric_label == Get(c.metric_label, "Unknown")
        value        == Get(c.value, "")
    IN  IF /\ IsStr(doc_id) /\ IsStr(doc_name) /\ IsStr(metric_id)
           /\ IsStr(metric_label) /\ IsStr(value)
        THEN [type |-> "cell", index |-> index, doc_id |-> doc_id,
              doc_name |-> doc_name, metric_id |-> metric_id,
              metric_label |-> metric_label, value |-> value]
        ELSE Failed

\* DocumentCitation(index=..., doc_id=c.get("doc_id", ""), ...): section is
\* Optional[str], so a null or absent section is accepted
DocumentCitation(index, c) ==
    LET doc_id   == Get(c.doc_id, "")
        doc_name == Get(c.doc_name, "Unknown")
        section  == Get(c.section, NullStr)
        excerpt  == Get(c.excerpt, "")
    IN  IF IsStr(doc_id) /\ IsStr(doc_name) /\ IsStr(excerpt)
        THEN [type |-> "document", index |-> index, doc_id |-> doc_id,
              doc_name |-> doc_name, section |-> section, excerpt |-> excerpt]
        ELSE Failed

\* the try block that builds one typed citation: <<citation>> when one was
\* appended, <<>> when the type is neither cell nor document or the
\* constructor raised
BuildCitation(index, c) ==
    LET built == IF c.type = "cell" THEN CellCitation(index, c)
                 ELSE IF c.type = "document" THEN DocumentCitation(index, c)
                 ELSE Failed
    IN  IF built = Failed THEN <<>> ELSE <<built>>

RECURSIVE ParseFrom(_, _)
ParseFrom(raw, i) ==
    IF i > Len(raw) THEN <<>>
    ELSE BuildCitation(i, raw[i]) \o ParseFrom(raw, i + 1)

\* _parse_citations
ParseCitations(raw) == ParseFrom(raw, 1)

RECURSIVE FindRefs(_, _)
\* re.findall(ref_pattern, content), scanning from i
FindRefs(t, i) ==
    IF i > Len(t) THEN <<>>
    ELSE LET m == MatchRef(t, i)
         IN  IF m.end > 0 THEN <<m.num>> \o FindRefs(t, m.end)
             ELSE FindRefs(t, i + 1)

InSeq(x, s) == \E k \in 1..Len(s) : s[k] = x

RECURSIVE UniqueRefs(_, _)
\* the loop that keeps the first occurrence of each ref; acc is unique_refs
UniqueRefs(refs, acc) ==
    IF refs = <<>> THEN acc
    ELSE UniqueRefs(Tail(refs),
                    IF InSeq(Head(refs), acc) THEN acc ELSE Append(acc, Head(refs)))

SetMax(S) == CHOOSE x \in S : \A y \in S : y <= x

\* citation_by_index.get(old_ref): position in raw of the citation stored
\* under the key str(idx) = old_ref (a later citation overwrites an earlier
\* one with the same key), 0 for None
CitationByIndex(raw, old_ref) ==
    LET hits == { j \in 1..Len(raw) :
                    /\ GetIndex(raw[j]).tag = "int"
                    /\ Str(GetIndex(raw[j]).n) = old_ref }
    IN  IF hits = {} THEN 0 ELSE SetMax(hits)

\* ResolveRef without the fallback to the order of appearance
ResolveRefIndexOnly(raw, new_index, old_ref) == CitationByIndex(raw, old_ref)

\* citation_data of the loop body for (new_index, old_ref): position in raw,
\* 0 for None
ResolveRef(raw, new_index, old_ref) ==
    LET byIndex == CitationByIndex(raw, old_ref)
    IN  IF byIndex # 0 THEN byIndex
        ELSE IF Len(raw) >= new_index THEN new_index
        ELSE 0

\* old_to_new: the refs that got a citation, with their new index
OldToNew(raw, unique) ==
    { <<unique[i], i>> : i \in { k \in 1..Len(unique) :
                                    ResolveRef(raw, k, unique[k]) # 0 } }

RECURSIVE NormalizedFrom(_, _, _)
\* normalized_citations, built by the loop from new_index = i on
NormalizedFrom(raw, unique, i) ==
    IF i > Len(unique) THEN <<>>
    ELSE LET j == ResolveRef(raw, i, unique[i])
         IN  (IF j = 0 THEN <<>> ELSE BuildCitation(i, raw[j]))
                 \o NormalizedFrom(raw, unique, i + 1)

RECURSIVE ReplaceRefs(_, _, _)
\* re.sub(ref_pattern, replace_ref, content), scanning from i
ReplaceRefs(t, map, i) ==
    IF i > Len(t) THEN <<>>
    ELSE LET m == MatchRef(t, i)
         IN  IF m.end > 0
             THEN (IF \E p \in map : p[1] = m.num
                   THEN Bracket(Str((CHOOSE p \in map : p[1] = m.num)[2]))
                   ELSE Slice(t, i, m.end - 1))
                      \o ReplaceRefs(t, map, m.end)
             ELSE <<t[i]>> \o ReplaceRefs(t, map, i + 1)

\* _normalize_citations
NormalizeCitations(c, raw) ==
    LET cleaned == CleanCitationLeakage(c)
        unique  == UniqueRefs(FindRefs(cleaned, 1), <<>>)
    IN  IF unique = <<>> \/ raw = <<>>
        THEN [content |-> cleaned, citations |-> ParseCitations(raw)]
        ELSE [content |-> ReplaceRefs(cleaned, OldToNew(raw, unique), 1),
              citations |-> NormalizedFrom(raw, unique, 1)]

----------------------------------------------------------------------------
(* _normalize_citations applied to every text over NormPieces and every    *)
(* list of at most MaxCits raw citations over NormCitations                 *)

RawCit(type, index, doc_id) ==
    [type |-> type, index |-> index, doc_id |-> doc_id, doc_name |-> "name",
     metric_id |-> NoKey, metric_label |-> NoKey, value |-> NoKey,
     section |-> NoKey, excerpt |-> NoKey]

CitA == RawCit("cell", IntV(1), "N_6F03AD")
CitB == RawCit("document", IntV(2), "N_77AA10")

NormCitations ==
    { CitA, CitB,
      RawCit("cell", IntV(1), "N_1DUPLI"),      \* a second citation of index 1
      RawCit("document", NoKeyV, "N_NOINDX"),   \* no index key
      RawCit("note", IntV(2), "N_NOTE00"),      \* neither cell nor document
      RawCit("cell", IntV(3), NullStr) }        \* "doc_id": null

NormPieces ==
    { T_Ref("1"), T_Ref("2"), T_Ref("3"), <<"x">>, T_Leak("Doc", "1") }

SeqsOver(S, n) == UNION { [1..k -> S] : k \in 0..n }

InitNormalize ==
    /\ content \in TextsOver(NormPieces, MaxPieces)
    /\ raw_citations \in SeqsOver(NormCitations, MaxCits)
    /\ cell_map = <<>>
    /\ doc_map = <<>>
    /\ result = Pending
    /\ NoServer

Normalize ==
    /\ result = Pending
    /\ LET r == NormalizeCitations(content, raw_citations)
       IN  result' = [status |-> "normalized", content |-> r.content,
                      citations |-> r.citations]
    /\ UNCHANGED <<content, raw_citations, cell_map, doc_map, store, chat_history, req>>

NextNormalize == Normalize

SpecNormalize == InitNormalize /\ [][NextNormalize]_vars

(* Vocabulary of the statements about normalization *)

Cleaned == CleanCitationLeakage(content)

\* distinct markers of the cleaned text, in first-seen order
Markers == UniqueRefs(FindRefs(Cleaned, 1), <<>>)

HasMarker(t) == \E i \in 1..Len(t) : MatchRef(t, i).end > 0

Indices(cits) == [k \in 1..Len(cits) |-> cits[k].index]

RECURSIVE Tokens(_, _)
\* the text from i on as markers and single atoms
Tokens(t, i) ==
    IF i > Len(t) THEN <<>>
    ELSE LET m == MatchRef(t, i)
         IN  IF m.end > 0 THEN <<[ref |-> TRUE, txt |-> m.num]>> \o Tokens(t, m.end)
             ELSE <<[ref |-> FALSE, txt |-> <<t[i]>>]>> \o Tokens(t, i + 1)

Rank(mk, num) == CHOOSE i \in 1..Len(mk) : mk[i] = num

\* raw citations whose index is the number of the marker num
IndexHits(num) ==
    { j \in 1..Len(raw_citations) :
        /\ raw_citations[j].index.tag = "int"
        /\ Str(raw_citations[j].index.n) = num }

\* raw citations the i-th distinct marker may be bound to
Bindings(mk, i) ==
    IF IndexHits(mk[i]) # {} THEN IndexHits(mk[i])
    ELSE IF i <= Len(raw_citations) THEN {i}
    ELSE {}

OnNormalizePath ==
    result.status = "normalized" /\ raw_citations # <<>> /\ Markers # <<>>

OnParsePath ==
    result.status = "normalized" /\ (raw_citations = <<>> \/ Markers = <<>>)

\* every marker occurrence whose marker is bound carries its rank, every
\* other token is the token of the cleaned text
TextRewritten(cl, mk) ==
    LET tin  == Tokens(cl, 1)
        tout == Tokens(result.content, 1)
    IN  /\ Len(tout) = Len(tin)
        /\ \A p \in 1..Len(tin) :
              IF tin[p].ref /\ Bindings(mk, Rank(mk, tin[p].txt)) # {}
              THEN tout[p] = [ref |-> TRUE, txt |-> Str(Rank(mk, tin[p].txt))]
              ELSE tout[p] = tin[p]

\* C1: with at least one [n] marker in the text and a non-empty list of raw
\* citations, the indices of the citations returned by _normalize_citations
\* are pairwise distinct and are exactly 1..m, m the number returned.
C1_IndicesContiguous ==
    (OnNormalizePath /\ HasMarker(content)) =>
        /\ { result.citations[k].index : k \in 1..Len(result.citations) }
              = 1..Len(result.citations)
        /\ \A k, l \in 1..Len(result.citations) :
              result.citations[k].index = result.citations[l].index => k = l

\* C2: when every distinct marker resolves to a raw citation, every
\* occurrence of the i-th marker has become [i] in place, nothing else of the
\* (cleaned) text has changed and the citations carry the indices 1..k in
\* that order; canonical input ([1]..[k], citations indexed 1..k) is returned
\* unchanged.
C2_Projection ==
    LET cl == Cleaned
        mk == UniqueRefs(FindRefs(cl, 1), <<>>)
    IN  ( /\ result.status = "normalized" /\ raw_citations # <<>> /\ mk # <<>>
          /\ \A i \in 1..Len(mk) : Bindings(mk, i) # {} ) =>
            /\ TextRewritten(cl, mk)
            /\ Indices(result.citations) = [k \in 1..Len(mk) |-> k]
            /\ ( /\ mk = [k \in 1..Len(mk) |-> Str(k)]
                 /\ Indices(raw_citations) = [k \in 1..Len(mk) |-> IntV(k)] )
                   => result.content = cl

\* C3: on the fallback to _parse_citations (no marker, or no raw citation)
\* the citations returned are, in input order, one per raw citation of type
\* cell or document (that can be constructed), with the indices 1..N and no
\* hole left by a skipped citation.
C3_ParseSequential ==
    OnParsePath =>
        LET typed == SelectSeq(raw_citations,
                               LAMBDA c : BuildCitation(0, c) # <<>>)
        IN  /\ Len(result.citations) = Len(typed)
            /\ \A k \in 1..Len(result.citations) :
                  /\ result.citations[k].index = k
                  /\ result.citations[k].doc_id = typed[k].doc_id

\* C4: the i-th distinct marker is bound to a raw citation whose index equals
\* the marker's number, else to the i-th raw citation, else it is dropped and
\* stays in the text; "[3]" with one raw citation of index 1 becomes "[1]"
\* with one citation of index 1.
C4_MarkerResolution ==
    LET cl == Cleaned
        mk == UniqueRefs(FindRefs(cl, 1), <<>>)
    IN  (result.status = "normalized" /\ raw_citations # <<>> /\ mk # <<>>) =>
          /\ TextRewritten(cl, mk)
          /\ \A i \in 1..Len(mk) :
                LET got == SelectSeq(result.citations, LAMBDA c : c.index = i)
                IN  IF Bindings(mk, i) = {} THEN got = <<>>
                    ELSE \E j \in Bindings(mk, i) :
                            got = BuildCitation(i, raw_citations[j])
          /\ (content = T_Ref("3") /\ raw_citations = <<CitA>>) =>
                /\ result.content = T_Ref("1")
                /\ result.citations = BuildCitation(1, CitA)

\* C4 witness: one text with a marker bound by index, one bound by position
\* and one dropped
C4_Witness ==
    /\ OnNormalizePath
    /\ \E a, b, c \in 1..Len(Markers) :
          /\ IndexHits(Markers[a]) # {}
          /\ IndexHits(Markers[b]) = {} /\ Bindings(Markers, b) # {}
          /\ Bindings(Markers, c) = {}
    /\ result.content # Cleaned

\* the marker occurrences of the cleaned text and of the returned text, in
\* step: re.sub rewrites each occurrence where it stands
MarkerPairs ==
    LET tin  == Tokens(Cleaned, 1)
        tout == Tokens(result.content, 1)
    IN  { <<tin[p].txt, tout[p].txt>> :
             p \in { k \in 1..Len(tin) : k <= Len(tout) /\ tin[k].ref /\ tout[k].ref } }

\* C28: the marker rewriting of _normalize_citations never merges references:
\* two markers that carry different numbers in the cleaned input text never
\* carry the same number in the returned text, also when one of them is
\* unresolved and left as it is while another is renumbered.
C28_NoMerge ==
    OnNormalizePath =>
        \A a, b \in MarkerPairs : a[1] # b[1] => a[2] # b[2]

\* the same when every marker of the text is resolved: the markers then carry
\* their ranks, which differ
C28_NoMergeWhenResolved ==
    (OnNormalizePath /\ \A i \in 1..Len(Markers) : Bindings(Markers, i) # {}) =>
        /\ Len(Tokens(result.content, 1)) = Len(Tokens(Cleaned, 1))
        /\ \A a, b \in MarkerPairs : a[1] # b[1] => a[2] # b[2]

\* the raw citations differ pairwise in their doc_id
DistinctSources ==
    \A j, k \in 1..Len(raw_citations) :
        raw_citations[j].doc_id = raw_citations[k].doc_id => j = k

\* C29: _normalize_citations never binds one raw citation to two different
\* markers: the citations it returns are built from pairwise different raw
\* citations, so no two of them name the same source entry through the index
\* match of one marker and the positional fallback of another.
C29_OneMarkerPerCitation ==
    (OnNormalizePath /\ DistinctSources) =>
        \A k, l \in 1..Len(result.citations) :
            result.citations[k].doc_id = result.citations[l].doc_id => k = l

\* the same when no marker is bound by the positional fallback
C29_OneMarkerPerIndexMatch ==
    ( /\ OnNormalizePath /\ DistinctSources
      /\ \A i \in 1..Len(Markers) :
            IndexHits(Markers[i]) # {} \/ Bindings(Markers, i) = {} ) =>
        \A k, l \in 1..Len(result.citations) :
            result.citations[k].doc_id = result.citations[l].doc_id => k = l

----------------------------------------------------------------------------
(* _enrich_citations *)

Min(a, b) == IF a <= b THEN a ELSE b

\* not doc_id or doc_id == "..." or len(doc_id) < 5
IsPlaceholder(doc_id) ==
    doc_id = NullStr \/ doc_id = "" \/ doc_id = "..." \/ Len(doc_id) < 5

\* the entry of the context map picked for idx: kind "entry" with the entry,
\* "none" when the map is empty and the citation is left alone, "TypeError"
\* when "idx > 0" compares None with an int
PickEntry(map, idx) ==
    IF idx.tag = "int" /\ idx.n \in DOMAIN map
    THEN [kind |-> "entry", at |-> idx.n]
    ELSE IF Len(map) > 0
         THEN IF idx.tag # "int" THEN [kind |-> "TypeError", at |-> 0]
              ELSE IF idx.n > 0
                   THEN [kind |-> "entry", at |-> Min(idx.n - 1, Len(map) - 1) + 1]
              ELSE [kind |-> "entry", at |-> 1]
    ELSE [kind |-> "none", at |-> 0]

\* the body of the loop for one citation: the enriched dict (ok), or the
\* TypeError that leaves the function
EnrichOne(c, cmap, dmap) ==
    LET idx    == IF c.index = NoKeyV THEN IntV(0) ELSE c.index
        doc_id == Get(c.doc_id, "")
    IN  IF c.type = "cell" /\ IsPlaceholder(doc_id)
        THEN LET e == PickEntry(cmap, idx)
             IN  IF e.kind = "TypeError" THEN [ok |-> FALSE, citation |-> c]
                 ELSE IF e.kind = "none" THEN [ok |-> TRUE, citation |-> c]
                 ELSE [ok |-> TRUE, citation |->
                         [c EXCEPT !.doc_id = cmap[e.at].doc_id,
                                   !.doc_name = cmap[e.at].doc_name,
                                   !.metric_id = cmap[e.at].metric_id,
                                   !.metric_label = cmap[e.at].metric_label,
                                   !.value = cmap[e.at].cell.value]]
        ELSE IF c.type = "document" /\ IsPlaceholder(doc_id)
        THEN LET e == PickEntry(dmap, idx)
             IN  IF e.kind = "TypeError" THEN [ok |-> FALSE, citation |-> c]
                 ELSE IF e.kind = "none" THEN [ok |-> TRUE, citation |-> c]
                 ELSE [ok |-> TRUE, citation |->
                         [c EXCEPT !.doc_id = dmap[e.at].doc_id,
                                   !.doc_name = dmap[e.at].doc_name,
                                   !.section = dmap[e.at].section,
                                   !.excerpt = dmap[e.at].content]]
        ELSE [ok |-> TRUE, citation |-> c]

\* _enrich_citations: the list of enriched dicts, or the exception that
\* leaves the loop
EnrichCitations(raw, cmap, dmap) ==
    LET each == [k \in 1..Len(raw) |-> EnrichOne(raw[k], cmap, dmap)]
    IN  IF \E k \in 1..Len(raw) : ~each[k].ok
        THEN [status |-> "raised", error |-> "TypeError"]
        ELSE [status |-> "enriched",
              citations |-> [k \in 1..Len(raw) |-> each[k].citation]]

(* _enrich_citations applied to every list of at most MaxCits citations of *)
(* EnrichInputs and every pair of context maps of at most MaxMap entries    *)

CellMatch(doc_id, metric_id, value) ==
    [doc_id |-> doc_id, doc_name |-> "name of " \o doc_id,
     metric_id |-> metric_id, metric_label |-> "label of " \o metric_id,
     cell |-> [value |-> value, confidence |-> "High"], relevance_score |-> 10]

DocChunk(doc_id, section, text) ==
    [doc_id |-> doc_id, doc_name |-> "name of " \o doc_id, content |-> text,
     section |-> section, relevance_score |-> 10]

CellMatchPool ==
    << CellMatch("N_6F03AD", "m_rev", "714m"),
       CellMatch("d2", "m_rev", "12%"),
       CellMatch("N_77AA10", "m_ebit", "3x") >>

DocChunkPool ==
    << DocChunk("N_6F03AD", "RISKS", "text one"),
       DocChunk("d2", NullStr, "text two"),
       DocChunk("N_77AA10", "OUTLOOK", "text three") >>

EnrichInputs ==
    { RawCit("cell", idx, "...") :
        idx \in {NoKeyV, NullV, IntV(0 - 1), IntV(0), IntV(1), IntV(2), IntV(5)} }
    \cup { RawCit("document", idx, d) :
             idx \in {NullV, IntV(2), IntV(4)}, d \in {"", NoKey} }
    \cup { RawCit("cell", IntV(2), "N_6F03AD"),
           RawCit("cell", IntV(1), NullStr),
           RawCit("note", IntV(1), "...") }
    \* the ids of an entry of the context, with an index that names another
    \* entry or none
    \cup { [RawCit("cell", idx, d) EXCEPT !.metric_id = "m_rev"] :
             idx \in {IntV(1), IntV(5)}, d \in {"N_6F03AD", "d2"} }
    \cup { RawCit("document", IntV(1), "d2") }

InitEnrich ==
    /\ content = <<>>
    /\ raw_citations \in SeqsOver(EnrichInputs, MaxCits)
    /\ cell_map \in { SubSeq(CellMatchPool, 1, n) : n \in 0..MaxMap }
    /\ doc_map \in { SubSeq(DocChunkPool, 1, n) : n \in 0..MaxMap }
    /\ result = Pending
    /\ NoServer

Enrich ==
    /\ result = Pending
    /\ result' = EnrichCitations(raw_citations, cell_map, doc_map)
    /\ UNCHANGED <<content, raw_citations, cell_map, doc_map, store, chat_history, req>>

NextEnrich == Enrich

SpecEnrich == InitEnrich /\ [][NextEnrich]_vars

\* the raw citation names an entry of the context sent to the model: a cell
\* citation by doc_id and metric_id, a document citation by doc_id
Attributed(c) ==
    \/ /\ c.type = "cell"
       /\ \E k \in 1..Len(cell_map) :
             cell_map[k].doc_id = c.doc_id /\ cell_map[k].metric_id = c.metric_id
    \/ /\ c.type = "document"
       /\ \E k \in 1..Len(doc_map) : doc_map[k].doc_id = c.doc_id

\* the enriched citation k carries the ids of the raw one
KeepsIds(k) ==
    /\ result.citations[k].doc_id = raw_citations[k].doc_id
    /\ result.citations[k].metric_id = raw_citations[k].metric_id

\* C30: _enrich_citations never replaces a correct attribution: a raw cell or
\* document citation that already carries the doc_id (and metric_id) of an
\* entry of the context sent to the model keeps those ids after enrichment,
\* whatever its index says and however short the real ids are.
C30_AttributionKept ==
    (result # Pending /\ result.status = "enriched") =>
        \A k \in 1..Len(raw_citations) : Attributed(raw_citations[k]) => KeepsIds(k)

\* the same for ids of five characters or more, and for any id when the
\* context map of the citation's type is empty
C30_LongAttributionKept ==
    (result # Pending /\ result.status = "enriched") =>
        \A k \in 1..Len(raw_citations) :
            ( \/ Attributed(raw_citations[k]) /\ Len(raw_citations[k].doc_id) >= 5
              \/ raw_citations[k].type = "cell" /\ cell_map = <<>>
              \/ raw_citations[k].type = "document" /\ doc_map = <<>> )
                => KeepsIds(k)

Clamp(x, lo, hi) == IF x < lo THEN lo ELSE IF x > hi THEN hi ELSE x

\* position of the context entry the specification names for an index
ExpectedEntry(map, index) ==
    IF index.tag = "int" /\ index.n \in 1..Len(map) THEN index.n
    ELSE IF index.tag # "int" \/ index.n = 0 THEN 1
    ELSE Clamp(index.n - 1, 0, Len(map) - 1) + 1

\* C6: a cell citation with a placeholder doc_id and a non-empty cell_map
\* comes out with doc_id, doc_name, metric_id, metric_label and value of
\* cell_map[index], else of the entry at clamp(index-1, 0, len-1), else (index
\* absent, 0 or null) of the first entry; likewise a document citation
\* against doc_map; and the call never raises.
C6_EnrichFromContext ==
    result # Pending =>
        /\ result.status = "enriched"
        /\ \A k \in 1..Len(raw_citations) :
              LET c == raw_citations[k]
                  e == result.citations[k]
              IN  /\ ( /\ c.type = "cell" /\ IsPlaceholder(Get(c.doc_id, ""))
                       /\ cell_map # <<>> ) =>
                        LET m == cell_map[ExpectedEntry(cell_map, c.index)]
                        IN  /\ e.doc_id = m.doc_id
                            /\ e.doc_name = m.doc_name
                            /\ e.metric_id = m.metric_id
                            /\ e.metric_label = m.metric_label
                            /\ e.value = m.cell.value
                  /\ ( /\ c.type = "document" /\ IsPlaceholder(Get(c.doc_id, ""))
                       /\ doc_map # <<>> ) =>
                        LET d == doc_map[ExpectedEntry(doc_map, c.index)]
                        IN  /\ e.doc_id = d.doc_id
                            /\ e.doc_name = d.doc_name
                            /\ e.section = d.section
                            /\ e.excerpt = d.content

\* C6 without the clause "never raises": whenever the call returns, the
\* placeholders carry the expected entries
C6_EnrichedWhenReturned ==
    (result # Pending /\ result.status = "enriched") =>
        \A k \in 1..Len(raw_citations) :
            LET c == raw_citations[k]
                e == result.citations[k]
            IN  /\ ( /\ c.type = "cell" /\ IsPlaceholder(Get(c.doc_id, ""))
                     /\ cell_map # <<>> ) =>
                       e.doc_id = cell_map[ExpectedEntry(cell_map, c.index)].doc_id
                /\ ( /\ c.type = "document" /\ IsPlaceholder(Get(c.doc_id, ""))
                     /\ doc_map # <<>> ) =>
                       e.doc_id = doc_map[ExpectedEntry(doc_map, c.index)].doc_id

----------------------------------------------------------------------------
(* Python strings (queries, labels, ids, keys, document text) are TLA+       *)
(* strings; Ch(s, i) is the character s[i-1] of Python.                      *)

Ch(s, i) == SubSeq(s, i, i)

\* sub in s
Contains(s, sub) ==
    \E i \in 1..(Len(s) - Len(sub) + 1) : SubSeq(s, i, i + Len(sub) - 1) = sub

\* s.find(sub) + 1: position of the first occurrence, 0 when there is none
Find(s, sub) ==
    LET hits == { i \in 1..(Len(s) - Len(sub) + 1) :
                    SubSeq(s, i, i + Len(sub) - 1) = sub }
    IN  IF hits = {} THEN 0 ELSE CHOOSE i \in hits : \A j \in hits : i <= j

UpperCase == "ABCDEFGHIJKLMNOPQRSTUVWXYZ"
LowerCase == "abcdefghijklmnopqrstuvwxyz"

IsUpper(c) == \E i \in 1..26 : Ch(UpperCase, i) = c

LowerChar(c) ==
    IF IsUpper(c) THEN Ch(LowerCase, CHOOSE i \in 1..26 : Ch(UpperCase, i) = c)
    ELSE c

RECURSIVE Lower(_)
\* s.lower()
Lower(s) == IF s = "" THEN "" ELSE LowerChar(Ch(s, 1)) \o Lower(SubSeq(s, 2, Len(s)))

IsSpace(c) == c \in {" ", "\n", "\t"}

RECURSIVE Strip(_)
\* s.strip()
Strip(s) ==
    IF s = "" THEN ""
    ELSE IF IsSpace(Ch(s, 1)) THEN Strip(SubSeq(s, 2, Len(s)))
    ELSE IF IsSpace(Ch(s, Len(s))) THEN Strip(SubSeq(s, 1, Len(s) - 1))
    ELSE s

RECURSIVE SplitWords(_, _)
\* s.split(): the maximal runs of non-whitespace; cur is the run being read
SplitWords(s, cur) ==
    IF s = "" THEN (IF cur = "" THEN <<>> ELSE <<cur>>)
    ELSE IF IsSpace(Ch(s, 1))
         THEN (IF cur = "" THEN <<>> ELSE <<cur>>)
                  \o SplitWords(SubSeq(s, 2, Len(s)), "")
    ELSE SplitWords(SubSeq(s, 2, Len(s)), cur \o Ch(s, 1))

RECURSIVE InsertSorted(_, _)
\* x put behind every element whose score is at least its own
InsertSorted(sorted, x) ==
    IF sorted = <<>> THEN <<x>>
    ELSE IF Head(sorted).relevance_score >= x.relevance_score
         THEN <<Head(sorted)>> \o InsertSorted(Tail(sorted), x)
    ELSE <<x>> \o sorted

RECURSIVE SortByRelevance(_, _)
\* list.sort(key=relevance_score, reverse=True): stable, acc is the sorted prefix
SortByRelevance(l, acc) ==
    IF l = <<>> THEN acc ELSE SortByRelevance(Tail(l), InsertSorted(acc, Head(l)))

----------------------------------------------------------------------------
(* services/matrix_retriever.py.  Scores are in tenths (1.0 is 10).          *)

Concepts ==
    {"revenue", "margin", "growth", "leader", "risk", "churn", "valuation",
     "debt", "cash", "employee"}

semantic_mappings ==
    [c \in Concepts |->
        CASE c = "revenue"   -> {"revenue", "arr", "mrr", "sales", "income", "earnings"}
          [] c = "margin"    -> {"margin", "profit", "gross margin", "net margin", "profitability"}
          [] c = "growth"    -> {"growth", "delta", "change", "increase", "yoy"}
          [] c = "leader"    -> {"leadership", "ceo", "executive", "management", "founder"}
          [] c = "risk"      -> {"risk", "threat", "challenge", "exposure"}
          [] c = "churn"     -> {"churn", "retention", "attrition", "customer loss"}
          [] c = "valuation" -> {"valuation", "pe", "price", "multiple", "cap"}
          [] c = "debt"      -> {"debt", "leverage", "loan", "liability"}
          [] c = "cash"      -> {"cash", "fcf", "free cash flow", "liquidity"}
          [] c = "employee"  -> {"employee", "headcount", "staff", "workforce"}]

\* MatrixRetriever._normalize_query: the set of query terms
NormalizeQuery(query) ==
    LET query_lower == Lower(query)
        matched  == { c \in Concepts :
                        \E kw \in semantic_mappings[c] : Contains(query_lower, kw) }
        split    == SplitWords(query_lower, "")
        words    == { split[k] : k \in { j \in 1..Len(split) : Len(split[j]) > 3 } }
    IN  matched \cup words

\* the body of the scoring loop for one term
TermCredit(label_lower, term) ==
      (IF Contains(label_lower, term) THEN 10 ELSE 0)
    + (IF /\ term \in Concepts
          /\ \E kw \in semantic_mappings[term] : Contains(label_lower, kw)
       THEN 8 ELSE 0)

RECURSIVE ScoreSum(_, _)
ScoreSum(label_lower, terms) ==
    IF terms = {} THEN 0
    ELSE LET t == CHOOSE x \in terms : TRUE
         IN  TermCredit(label_lower, t) + ScoreSum(label_lower, terms \ {t})

\* MatrixRetriever._score_metric_relevance
ScoreMetricRelevance(metric_label, query_terms) ==
    Min(ScoreSum(Lower(metric_label), query_terms), 10)

Placeholder == "_"      \* stands for the dash the extractor writes for "not found"

min_relevance == 3      \* retrieve(..., min_relevance=0.3)

\* the part of cell_key before the first occurrence of sep: cell_key.split(sep)[0]
SplitHead(cell_key, sep) == SubSeq(cell_key, 1, Find(cell_key, sep) - 1)

DocLookup(documents, doc_id) ==
    LET hits == { k \in 1..Len(documents) : documents[k].id = doc_id }
    IN  IF hits = {} THEN 0 ELSE SetMax(hits)

\* the inner loop of retrieve for one metric: the matches among cells[i..]
RECURSIVE MatchesOfMetric(_, _, _, _, _)
MatchesOfMetric(metric, relevance, cells, documents, i) ==
    IF i > Len(cells) THEN <<>>
    ELSE LET cell_key == cells[i].id
             cell     == cells[i].cell
             doc_id   == SplitHead(cell_key, "-" \o metric.id)
             d        == DocLookup(documents, doc_id)
             hit      == /\ Contains(cell_key, "-" \o metric.id)
                         /\ cell.value # NullStr /\ cell.value # ""
                         /\ cell.value # Placeholder
                         /\ d # 0
         IN  (IF hit
              THEN <<[doc_id |-> doc_id, doc_name |-> documents[d].name,
                      metric_id |-> metric.id, metric_label |-> metric.label,
                      cell |-> cell, relevance_score |-> relevance]>>
              ELSE <<>>)
                 \o MatchesOfMetric(metric, relevance, cells, documents, i + 1)

RECURSIVE MatchesFrom(_, _, _, _, _)
\* the outer loop of retrieve, from metrics[i] on
MatchesFrom(query_terms, cells, metrics, documents, i) ==
    IF i > Len(metrics) THEN <<>>
    ELSE LET relevance == ScoreMetricRelevance(metrics[i].label, query_terms)
         IN  (IF relevance >= min_relevance
              THEN MatchesOfMetric(metrics[i], relevance, cells, documents, 1)
              ELSE <<>>)
                 \o MatchesFrom(query_terms, cells, metrics, documents, i + 1)

\* retrieve without matches.sort
MatrixRetrieveUnsorted(query, cells, metrics, documents) ==
    MatchesFrom(NormalizeQuery(query), cells, metrics, documents, 1)

\* MatrixRetriever.retrieve
MatrixRetrieve(query, cells, metrics, documents) ==
    SortByRelevance(MatchesFrom(NormalizeQuery(query), cells, metrics, documents, 1),
                    <<>>)

threshold == 2          \* has_sufficient_data(..., threshold=2)

\* has_sufficient_data with "==" for the first ">="
HasSufficientDataExact(matches, t) ==
    LET high_confidence == SelectSeq(matches, LAMBDA m : m.cell.confidence = "High")
    IN  Len(high_confidence) = t \/ Len(matches) >= t * 2

\* MatrixRetriever.has_sufficient_data(matches, t)
HasSufficientDataAt(matches, t) ==
    LET high_confidence == SelectSeq(matches, LAMBDA m : m.cell.confidence = "High")
    IN  Len(high_confidence) >= t \/ Len(matches) >= t * 2

\* has_sufficient_data with "and" for "or"
HasSufficientDataBoth(matches) ==
    LET high_confidence == SelectSeq(matches, LAMBDA m : m.cell.confidence = "High")
    IN  Len(high_confidence) >= threshold /\ Len(matches) >= threshold * 2

\* MatrixRetriever.has_sufficient_data with the default threshold
HasSufficientData(matches) == HasSufficientDataAt(matches, threshold)


RECURSIVE StrS(_)
\* str(n) of a non-negative int, as a string
StrS(n) == IF n < 10 THEN DigitChar(n) ELSE StrS(n \div 10) \o DigitChar(n % 10)

RECURSIVE CellLines(_, _)
CellLines(matches, i) ==
    IF i > Len(matches) THEN <<>>
    ELSE LET m == matches[i]
         IN  << "[Cell " \o StrS(i) \o "] (doc_id=" \o m.doc_id \o ", metric_id="
                  \o m.metric_id \o ") " \o m.doc_name \o " -> " \o m.metric_label
                  \o ": " \o m.cell.value \o " (Confidence: "
                  \o m.cell.confidence \o ")" >>
             \o CellLines(matches, i + 1)

\* MatrixRetriever.format_for_context: the lines joined by "\n"
FormatMatrixContext(matches) ==
    IF matches = <<>> THEN <<"No relevant matrix cells found.">>
    ELSE <<"RELEVANT MATRIX CELLS:">> \o CellLines(matches, 1)

----------------------------------------------------------------------------
(* services/document_retriever.py *)

chunk_size == 2000      \* DocumentRetriever(chunk_size=2000)
max_chunks == 5         \* retrieve(..., max_chunks=5)
min_chunk_relevance == 2    \* retrieve(..., min_relevance=0.2), in tenths

RECURSIVE WsEnd(_, _)
\* first position >= i that holds no whitespace
WsEnd(s, i) == IF i <= Len(s) /\ IsSpace(Ch(s, i)) THEN WsEnd(s, i + 1) ELSE i

\* \n\s*\n matched at the newline i: position of its last "\n", 0 for no match
SepEnd(s, i) ==
    LET nl == { k \in (i + 1)..(WsEnd(s, i + 1) - 1) : Ch(s, k) = "\n" }
    IN  IF nl = {} THEN 0 ELSE SetMax(nl)

RECURSIVE SplitParagraphs(_, _, _)
\* re.split(r'\n\s*\n', content): scanning at i, the paragraph began at start
SplitParagraphs(s, i, start) ==
    IF i > Len(s) THEN <<SubSeq(s, start, Len(s))>>
    ELSE IF Ch(s, i) = "\n" /\ SepEnd(s, i) > 0
         THEN <<SubSeq(s, start, i - 1)>>
                  \o SplitParagraphs(s, SepEnd(s, i) + 1, SepEnd(s, i) + 1)
    ELSE SplitParagraphs(s, i + 1, start)

RECURSIVE HashEnd(_, _)
HashEnd(s, i) == IF i <= Len(s) /\ Ch(s, i) = "#" THEN HashEnd(s, i + 1) ELSE i

\* re.match(r'^#+\s*(.+)$|^([A-Z][A-Z\s]+)$', p): group(1) or group(2),
\* NullStr when the paragraph is no header
HeaderMatch(p) ==
    IF p # "" /\ Ch(p, 1) = "#"
    THEN LET rest == SubSeq(p, WsEnd(p, HashEnd(p, 1)), Len(p))
         IN  IF rest # "" THEN (IF Contains(rest, "\n") THEN NullStr ELSE rest)
             ELSE IF Len(p) >= 2 THEN "#"
             ELSE NullStr
    ELSE IF /\ Len(p) >= 2 /\ IsUpper(Ch(p, 1))
            /\ \A k \in 2..Len(p) : IsUpper(Ch(p, k)) \/ IsSpace(Ch(p, k))
         THEN p
    ELSE NullStr

RECURSIVE ChunkFrom(_, _, _, _, _, _)
\* the loop of _chunk_document from paragraphs[i] on, and the final flush
ChunkFrom(doc, size, paragraphs, i, current_chunk, current_section) ==
    LET flush(section) ==
            IF current_chunk # ""
            THEN <<DocChunk(doc.id, section, Strip(current_chunk))>>
            ELSE <<>>
    IN  IF i > Len(paragraphs) THEN flush(current_section)
        ELSE LET para    == paragraphs[i]
                 header  == HeaderMatch(Strip(para))
                 section == IF header # NullStr THEN header ELSE current_section
             IN  IF Len(current_chunk) + Len(para) > size
                 THEN flush(section)
                          \o ChunkFrom(doc, size, paragraphs, i + 1, para, section)
                 ELSE ChunkFrom(doc, size, paragraphs, i + 1,
                                IF current_chunk # ""
                                THEN current_chunk \o "\n\n" \o para ELSE para,
                                section)

\* _chunk_document with chunk_overlap applied: every chunk but the first
\* begins with the last paragraph of the chunk before it
ChunkDocumentOverlap(doc, size) ==
    LET chunks == ChunkFrom(doc, size, SplitParagraphs(doc.content, 1, 1), 1, "", NullStr)
        last(k) == LET ps == SplitParagraphs(chunks[k].content, 1, 1) IN ps[Len(ps)]
    IN  [k \in 1..Len(chunks) |->
            [chunks[k] EXCEPT !.doc_name = doc.name, !.relevance_score = 0,
                              !.content = IF k = 1 THEN @
                                          ELSE last(k - 1) \o "\n\n" \o @]]

\* DocumentRetriever._chunk_document
ChunkDocument(doc, size) ==
    LET chunks == ChunkFrom(doc, size, SplitParagraphs(doc.content, 1, 1), 1, "", NullStr)
    IN  [k \in 1..Len(chunks) |->
            [chunks[k] EXCEPT !.doc_name = doc.name, !.relevance_score = 0]]


RECURSIVE CountOcc(_, _)
\* s.count(sub): occurrences that do not overlap, from the left
CountOcc(s, sub) ==
    LET at == Find(s, sub)
    IN  IF sub = "" \/ at = 0 THEN 0
        ELSE 1 + CountOcc(SubSeq(s, at + Len(sub), Len(s)), sub)

RECURSIVE ContentScore(_, _, _)
\* the first loop of _score_chunk_relevance, from query_terms[i] on
ContentScore(content_lower, query_terms, i) ==
    IF i > Len(query_terms) THEN 0
    ELSE Min(CountOcc(content_lower, query_terms[i]) * 2, 10)
            + ContentScore(content_lower, query_terms, i + 1)

RECURSIVE SectionBoost(_, _, _)
\* the second loop of _score_chunk_relevance, from query_terms[i] on
SectionBoost(section_lower, query_terms, i) ==
    IF i > Len(query_terms) THEN 0
    ELSE (IF Contains(section_lower, query_terms[i]) THEN 5 ELSE 0)
            + SectionBoost(section_lower, query_terms, i + 1)

\* DocumentRetriever._score_chunk_relevance, in tenths
ScoreChunkRelevance(chunk, query_terms) ==
    Min( ContentScore(Lower(chunk.content), query_terms, 1)
           + (IF chunk.section # NullStr /\ chunk.section # ""
              THEN SectionBoost(Lower(chunk.section), query_terms, 1) ELSE 0),
         10)

\* the query terms of DocumentRetriever.retrieve
DocQueryTerms(query) ==
    SelectSeq(SplitWords(Lower(query), ""), LAMBDA w : Len(w) > 3)

RECURSIVE ScoredChunks(_, _, _, _, _)
\* all_chunks, gathered from documents[i] on
ScoredChunks(query_terms, documents, i, size, min_rel) ==
    IF i > Len(documents) THEN <<>>
    ELSE LET chunks == ChunkDocument(documents[i], size)
             scored == [k \in 1..Len(chunks) |->
                          [chunks[k] EXCEPT !.relevance_score =
                              ScoreChunkRelevance(chunks[k], query_terms)]]
         IN  SelectSeq(scored, LAMBDA c : c.relevance_score >= min_rel)
                 \o ScoredChunks(query_terms, documents, i + 1, size, min_rel)

\* retrieve without the cut [:max_chunks]
DocumentRetrieveUncut(query, documents, size, max, min_rel) ==
    SortByRelevance(ScoredChunks(DocQueryTerms(query), documents, 1, size, min_rel),
                    <<>>)

\* DocumentRetriever(chunk_size=size).retrieve(query, documents, max, min_rel)
DocumentRetrieveWith(query, documents, size, max, min_rel) ==
    LET all_chunks == SortByRelevance(
                          ScoredChunks(DocQueryTerms(query), documents, 1, size, min_rel),
                          <<>>)
    IN  SubSeq(all_chunks, 1, Min(Len(all_chunks), max))

\* DocumentRetriever.retrieve as the chat endpoints call it
DocumentRetrieve(query, documents) ==
    DocumentRetrieveWith(query, documents, chunk_size, max_chunks, min_chunk_relevance)

NoDocumentSections == <<"No relevant document sections found.">>

RECURSIVE DocLines(_, _)
DocLines(chunks, i) ==
    IF i > Len(chunks) THEN <<>>
    ELSE LET c == chunks[i]
         IN  << "\n[Doc " \o StrS(i) \o "] (doc_id=" \o c.doc_id \o ") " \o c.doc_name
                  \o (IF c.section # NullStr /\ c.section # ""
                      THEN " (Section: " \o c.section \o ")" ELSE ""),
                "Content: " \o c.content \o "..." >>
             \o DocLines(chunks, i + 1)

\* DocumentRetriever.format_for_context: the lines joined by "\n"
FormatDocumentContext(chunks) ==
    IF chunks = <<>> THEN NoDocumentSections
    ELSE <<"RELEVANT DOCUMENT SECTIONS:">> \o DocLines(chunks, 1)

----------------------------------------------------------------------------
(* state/store.py.  A dict is the list of its entries in insertion order;    *)
(* an entry carries its key in the field id.                                 *)

\* d[e.id] = e
Put(entries, e) ==
    IF \E k \in 1..Len(entries) : entries[k].id = e.id
    THEN [k \in 1..Len(entries) |-> IF entries[k].id = e.id THEN e ELSE entries[k]]
    ELSE Append(entries, e)

RECURSIVE PutAll(_, _)
PutAll(entries, new) ==
    IF new = <<>> THEN entries ELSE PutAll(Put(entries, Head(new)), Tail(new))

\* sync_documents without self._documents.clear()
SyncDocumentsKeep(st, documents) ==
    [st EXCEPT !.documents = PutAll(st.documents, documents)]

\* StateStore.sync_documents
SyncDocuments(st, documents) == [st EXCEPT !.documents = PutAll(<<>>, documents)]

\* StateStore.sync_metrics
SyncMetrics(st, metrics) == [st EXCEPT !.metrics = PutAll(<<>>, metrics)]

\* StateStore.sync_cells
SyncCells(st, cells) == [st EXCEPT !.cells = PutAll(<<>>, cells)]

\* sync_context without the call of sync_metrics
SyncContextKeepMetrics(st, matrix_context) ==
    SyncCells(SyncDocuments(st, matrix_context.documents), matrix_context.cells)

\* StateStore.sync_context
SyncContext(st, matrix_context) ==
    SyncCells(SyncMetrics(SyncDocuments(st, matrix_context.documents),
                          matrix_context.metrics),
              matrix_context.cells)

\* StateStore.add_chat_message
AddChatMessage(h, session_id, message) ==
    [h EXCEPT ![session_id] = Append(@, message)]

\* the slice l[-n:]: the last n elements for n > 0, but l[0:] (all of l) for
\* n = 0 and l[-n:] counted from the front for n < 0
LastN(l, n) ==
    IF n > 0 THEN SubSeq(l, IF Len(l) > n THEN Len(l) - n + 1 ELSE 1, Len(l))
    ELSE SubSeq(l, 1 - n, Len(l))

\* StateStore.get_chat_history
GetChatHistory(h, session_id, limit) == LastN(h[session_id], limit)

\* StateStore.clear_chat_history
ClearChatHistory(h, session_id) == [h EXCEPT ![session_id] = <<>>]

----------------------------------------------------------------------------
(* The requests the process may receive *)

Reqs == 1..MaxReqs

Sessions == {"s1", "s2"}

Document(id, name, text) == [id |-> id, name |-> name, content |-> text]
Metric(id, label) == [id |-> id, label |-> label]
Cell(doc_id, metric_id, value, confidence) ==
    [id |-> doc_id \o "-" \o metric_id,
     cell |-> [value |-> value, confidence |-> confidence]]

Acme   == Document("N_6F03AD", "Acme", "OUTLOOK\n\nThe revenue grew. Revenue was 714m.")
Globex == Document("N_77AA10", "Globex", "# Results\n\nSales fell last year.")
Initech == Document("N_300000", "Initech", "Initech reports revenue of 3m.")

\* revenue: one High-confidence cell and an empty one, not sufficient;
\* CEO: two High-confidence cells, sufficient
CtxA == [documents |-> <<Acme, Globex>>,
         metrics   |-> <<Metric("m1", "Revenue (EUR)"), Metric("m2", "CEO")>>,
         cells     |-> <<Cell("N_6F03AD", "m1", "714m", "High"),
                         Cell("N_77AA10", "m1", Placeholder, "Exploratory"),
                         Cell("N_6F03AD", "m2", "Ann", "High"),
                         Cell("N_77AA10", "m2", "Bob", "High")>>]

\* four revenue cells of Medium confidence: sufficient by their number
CtxB == [documents |-> <<Initech, Globex>>,
         metrics   |-> <<Metric("m1", "Revenue (EUR)"), Metric("m3", "Recurring revenue")>>,
         cells     |-> <<Cell("N_300000", "m1", "3m", "Medium"),
                         Cell("N_77AA10", "m1", "12m", "Medium"),
                         Cell("N_300000", "m3", "1m", "Medium"),
                         Cell("N_77AA10", "m3", "2m", "Medium")>>]

\* two High-confidence revenue cells: sufficient
CtxC == [documents |-> <<Acme, Globex>>,
         metrics   |-> <<Metric("m1", "Revenue (EUR)")>>,
         cells     |-> <<Cell("N_6F03AD", "m1", "714m", "High"),
                         Cell("N_77AA10", "m1", "12m", "High")>>]

ChatRequest(session_id, query, matrix_context) ==
    [session_id |-> session_id, query |-> query, matrix_context |-> matrix_context]

\* the bodies of the requests: the first two share a session and differ in
\* their matrix_context
Requests ==
    << ChatRequest("s1", "What was the revenue", CtxA),
       ChatRequest("s1", "What was the revenue", CtxB),
       ChatRequest("s2", "Who is the CEO?", CtxA),
       ChatRequest("s2", "What was the revenue", CtxC) >>

\* the body of request r
RequestOf(r) == Requests[((r - 1) % Len(Requests)) + 1]

\* a text of ordinary characters, as one atom
Text(str) == <<str>>


\* what llm_service.chat_with_context may do: raise (raises # "none") or
\* return the parsed JSON object; kind names the case
Reply(kind, raises, has_response, response, has_citations, citations, confidence) ==
    [kind |-> kind, raises |-> raises,
     has_response |-> has_response, response |-> response,
     has_citations |-> has_citations, citations |-> citations,
     confidence |-> confidence]

ChatReplies ==
    { Reply("ok", "none", TRUE, Text("Revenue grew ") \o T_Ref("1"), TRUE,
            <<RawCit("cell", IntV(1), "N_6F03AD")>>, "High"),
      Reply("placeholder_ids", "none", TRUE, T_Ref("1"), TRUE,
            <<RawCit("cell", IntV(1), "...")>>, "High"),
      Reply("missing_fields", "none", FALSE, <<>>, FALSE, <<>>, NoKey),
      Reply("null_index", "none", TRUE, T_Ref("1"), TRUE,
            <<RawCit("cell", NullV, "...")>>, "High"),
      Reply("bad_confidence", "none", TRUE, Text("Unclear."), TRUE, <<>>, "Unsure"),
      \* _parse_json_response: raise ValueError("Invalid JSON response from model")
      Reply("invalid_json", "ValueError", FALSE, <<>>, FALSE, <<>>, NoKey),
      \* the provider call itself fails
      Reply("provider_error", "ProviderError", FALSE, <<>>, FALSE, <<>>, NoKey) }

\* text deltas and citation batches of llm_service.chat_with_context_stream
StreamTexts == { Text("Revenue grew ") \o T_Ref("1") }

\* the last is what the "except Exception" around _parse_json_response yields
StreamCitationReplies ==
    { [kind |-> "placeholder_ids", citations |-> <<RawCit("cell", IntV(1), "...")>>],
      [kind |-> "null_index", citations |-> <<RawCit("cell", NullV, "...")>>],
      [kind |-> "invalid_json", citations |-> <<>>] }

Idle ==
    [pc |-> "idle", endpoint |-> "", session_id |-> "", query |-> "",
     matrix_context |-> EmptyStore,
     documents |-> <<>>, metrics |-> <<>>, cells |-> <<>>,
     cell_matches |-> <<>>, doc_chunks |-> <<>>,
     matrix_text |-> <<>>, document_text |-> <<>>, history_text |-> <<>>,
     cell_map |-> <<>>, doc_map |-> <<>>,
     full_content |-> <<>>, raw_citations |-> <<>>,
     reply |-> "", calls |-> <<>>,
     events |-> <<>>, response |-> [status |-> 0]]

UserMessage(query) == [role |-> "user", content |-> Text(query), citations |-> <<>>]

AssistantMessage(text, citations) ==
    [role |-> "assistant", content |-> text, citations |-> citations]

\* the lines of history_text
HistoryText(messages) ==
    [k \in 1..Len(messages) |->
        [speaker |-> IF messages[k].role = "user" THEN "User" ELSE "Assistant",
         content |-> messages[k].content]]

\* matrix_retriever.retrieve and document_retriever.retrieve as called by the
\* endpoints.  Both are pure functions of their arguments; their values on
\* the contexts listed above are tabulated once, any other argument is
\* computed on the spot.
Tabulated ==
    [i \in DOMAIN Requests |-> SyncContext(EmptyStore, Requests[i].matrix_context)]

MatrixTable ==
    [i \in DOMAIN Requests |->
        MatrixRetrieve(Requests[i].query, Tabulated[i].cells,
                       Tabulated[i].metrics, Tabulated[i].documents)]

DocumentTable ==
    [i \in DOMAIN Requests |->
        DocumentRetrieve(Requests[i].query, Tabulated[i].documents)]

RetrieveCells(query, cells, metrics, documents) ==
    LET hit == {i \in DOMAIN Requests :
                   /\ Requests[i].query = query
                   /\ Tabulated[i].cells = cells
                   /\ Tabulated[i].metrics = metrics
                   /\ Tabulated[i].documents = documents}
    IN  IF hit # {}
        THEN MatrixTable[CHOOSE i \in hit : TRUE]
        ELSE MatrixRetrieve(query, cells, metrics, documents)

RetrieveChunks(query, documents) ==
    LET hit == {i \in DOMAIN Requests :
                   /\ Requests[i].query = query
                   /\ Tabulated[i].documents = documents}
    IN  IF hit # {}
        THEN DocumentTable[CHOOSE i \in hit : TRUE]
        ELSE DocumentRetrieve(query, documents)

\* chat and chat_stream.generate up to the call of the model: the store is
\* synced and read, the matrix and (if needed) the documents are searched, the
\* history is read, the user message is stored and the maps are built
Prepare(r, endpoint) ==
    \E request \in {RequestOf(r)} :
    \E synced \in {SyncContext(store, request.matrix_context)} :
    \E cell_matches \in {RetrieveCells(request.query, synced.cells, synced.metrics,
                                       synced.documents)} :
    \E matrix_sufficient \in {HasSufficientData(cell_matches)} :
    \E doc_chunks \in {IF ~matrix_sufficient
                       THEN RetrieveChunks(request.query, synced.documents)
                       ELSE <<>>} :
    \E history \in {GetChatHistory(chat_history, request.session_id, 10)} :
        /\ store' = synced
        /\ chat_history' = AddChatMessage(chat_history, request.session_id,
                                          UserMessage(request.query))
        /\ req' = [req EXCEPT ![r] =
              [Idle EXCEPT
                 !.pc = "llm", !.endpoint = endpoint,
                 !.session_id = request.session_id, !.query = request.query,
                 !.matrix_context = request.matrix_context,
                 !.documents = synced.documents, !.metrics = synced.metrics,
                 !.cells = synced.cells,
                 !.cell_matches = cell_matches, !.doc_chunks = doc_chunks,
                 !.matrix_text = FormatMatrixContext(cell_matches),
                 !.document_text = FormatDocumentContext(doc_chunks),
                 !.history_text = HistoryText(LastN(history, 6)),
                 !.cell_map = cell_matches, !.doc_map = doc_chunks,
                 !.calls = <<"sync_context", "matrix_retrieve", "has_sufficient_data">>
                             \o (IF ~matrix_sufficient THEN <<"document_retrieve">>
                                 ELSE <<>>)
                             \o <<"llm">>]]

\* POST /api/chat, up to "await llm_service.chat_with_context"
ChatBegin(r) ==
    /\ req[r].pc = "idle"
    /\ Prepare(r, "chat")
    /\ UNCHANGED <<content, raw_citations, cell_map, doc_map, result>>

ValidConfidence(c) == c \in {"High", "Medium", "Low"}

\* a variant of chat that calls the model a second time when the first call
\* raised
ChatReturnRetry(r) ==
    /\ req[r].pc = "llm" /\ req[r].endpoint = "chat"
    /\ \E llm_response \in ChatReplies :
         IF llm_response.raises # "none" /\ Len(req[r].calls) < 6
         THEN req' = [req EXCEPT ![r].calls = Append(@, "llm")]
         ELSE req' = [req EXCEPT ![r].pc = "done", ![r].reply = llm_response.kind,
                                 ![r].response = [status |-> 500]]
    /\ UNCHANGED <<content, raw_citations, cell_map, doc_map, result, store,
                   chat_history>>

\* POST /api/chat, from the return of the model to the response
ChatReturn(r) ==
    /\ req[r].pc = "llm" /\ req[r].endpoint = "chat"
    /\ \E llm_response \in ChatReplies :
         LET raw_content == IF llm_response.has_response THEN llm_response.response
                            ELSE Text("I was unable to generate a response.")
             raw         == IF llm_response.has_citations THEN llm_response.citations
                            ELSE <<>>
             enriched    == EnrichCitations(raw, req[r].cell_map, req[r].doc_map)
             normalized  == NormalizeCitations(raw_content, enriched.citations)
             confidence  == Get(llm_response.confidence, "Medium")
             finish(response) ==
                 req' = [req EXCEPT ![r].pc = "done", ![r].reply = llm_response.kind,
                                    ![r].response = response]
         IN  IF llm_response.raises # "none" \/ enriched.status = "raised"
             THEN /\ finish([status |-> 500])
                  /\ UNCHANGED chat_history
             ELSE /\ chat_history' = AddChatMessage(chat_history, req[r].session_id,
                         AssistantMessage(normalized.content, normalized.citations))
                  /\ IF ValidConfidence(confidence)
                     THEN finish([status |-> 200, content |-> normalized.content,
                                  citations |-> normalized.citations,
                                  confidence |-> confidence])
                     ELSE finish([status |-> 500])
    /\ UNCHANGED <<content, raw_citations, cell_map, doc_map, result, store>>


Event(type, text, citations, error) ==
    [type |-> type, content |-> text, citations |-> citations, error |-> error]

\* POST /api/chat/stream: generate() up to the first request to the model
StreamBegin(r) ==
    /\ req[r].pc = "idle"
    /\ Prepare(r, "stream")
    /\ UNCHANGED <<content, raw_citations, cell_map, doc_map, result>>

\* one {"type": "text"} chunk of the model: accumulated and sent on
StreamText(r) ==
    /\ req[r].pc = "llm" /\ req[r].endpoint = "stream"
    /\ Len(req[r].events) < MaxChunks
    /\ \E text \in StreamTexts :
          req' = [req EXCEPT
                    ![r].full_content = @ \o text,
                    ![r].events = Append(@, Event("text", text, <<>>, ""))]
    /\ UNCHANGED <<content, raw_citations, cell_map, doc_map, result, store,
                   chat_history>>

\* the {"type": "citations"} chunk ends the model's stream: the citations are
\* processed, the assistant message is stored and the citations event sent;
\* an exception in the processing is reported as an error event instead
StreamEnd(r) ==
    /\ req[r].pc = "llm" /\ req[r].endpoint = "stream"
    /\ \E chunk \in StreamCitationReplies :
         LET enriched   == EnrichCitations(chunk.citations, req[r].cell_map,
                                           req[r].doc_map)
             normalized == NormalizeCitations(req[r].full_content,
                                              enriched.citations)
         IN  IF enriched.status = "raised"
             THEN /\ req' = [req EXCEPT
                       ![r].pc = "done", ![r].reply = chunk.kind,
                       ![r].raw_citations = chunk.citations,
                       ![r].events = Append(@, Event("error", <<>>, <<>>,
                                                     enriched.error))]
                  /\ UNCHANGED chat_history
             ELSE /\ chat_history' = AddChatMessage(chat_history, req[r].session_id,
                         AssistantMessage(normalized.content, normalized.citations))
                  /\ req' = [req EXCEPT
                       ![r].pc = "finishing", ![r].reply = chunk.kind,
                       ![r].raw_citations = chunk.citations,
                       ![r].events = Append(@, Event("citations", <<>>,
                                                     normalized.citations, ""))]
    /\ UNCHANGED <<content, raw_citations, cell_map, doc_map, result, store>>

\* the done event, after which generate() returns
StreamDone(r) ==
    /\ req[r].pc = "finishing"
    /\ req' = [req EXCEPT ![r].pc = "done",
                          ![r].events = Append(@, Event("done", <<>>, <<>>, ""))]
    /\ UNCHANGED <<content, raw_citations, cell_map, doc_map, result, store,
                   chat_history>>

\* a variant in which the exception is raised after the citations were sent
StreamFailLate(r) ==
    /\ req[r].pc = "finishing"
    /\ req' = [req EXCEPT ![r].pc = "done", ![r].reply = "provider_error",
                          ![r].events = Append(@, Event("error", <<>>, <<>>,
                                                        "ProviderError"))]
    /\ UNCHANGED <<content, raw_citations, cell_map, doc_map, result, store,
                   chat_history>>

\* a request to the model raises (either of the two completions.create calls
\* or the iteration of the stream): "except Exception" sends the error event
StreamFail(r) ==
    /\ req[r].pc = "llm" /\ req[r].endpoint = "stream"
    /\ req' = [req EXCEPT ![r].pc = "done", ![r].reply = "provider_error",
                          ![r].events = Append(@, Event("error", <<>>, <<>>,
                                                        "ProviderError"))]
    /\ UNCHANGED <<content, raw_citations, cell_map, doc_map, result, store,
                   chat_history>>

Init ==
    /\ content = <<>> /\ raw_citations = <<>>
    /\ cell_map = <<>> /\ doc_map = <<>>
    /\ result = Pending
    /\ store = EmptyStore
    /\ chat_history = [s \in Sessions |-> <<>>]
    /\ req = [r \in Reqs |-> Idle]

Next ==
    \E r \in Reqs :
        \/ ChatBegin(r)
        \/ ChatReturn(r)
        \/ StreamBegin(r)
        \/ StreamText(r)
        \/ StreamEnd(r)
        \/ StreamDone(r)
        \/ StreamFail(r)

Spec == Init /\ [][Next]_vars


(* The event streams of chat_stream *)

EventTypes(events) == [k \in 1..Len(events) |-> events[k].type]

\* the number of text events a stream starts with
LeadingText(types) ==
    CHOOSE n \in 0..Len(types) :
        /\ \A k \in 1..n : types[k] = "text"
        /\ n = Len(types) \/ types[n + 1] # "text"

\* what follows the leading text events
AfterText(types) == SubSeq(types, LeadingText(types) + 1, Len(types))

Streaming == {r \in Reqs : req[r].endpoint = "stream"}

\* C7: the events chat_stream has sent for a turn are, at every moment, text
\* events followed by nothing yet, by one citations event, by one citations
\* and then one done event, or by one error event; a turn that is over ended
\* with citations and done or with error alone, so text never follows
\* citations, error excludes citations and done, and nothing follows done or
\* error.
C7_StreamEventOrder ==
    \A r \in Streaming :
        LET rest == AfterText(EventTypes(req[r].events))
        IN  /\ rest \in {<<>>, <<"citations">>, <<"citations", "done">>, <<"error">>}
            /\ req[r].pc = "llm" => rest = <<>>
            /\ req[r].pc = "finishing" => rest = <<"citations">>
            /\ req[r].pc = "done" => rest \in {<<"citations", "done">>, <<"error">>}

\* one turn ended text, citations, done and another text, error
C7_Witness ==
    \E r1, r2 \in Streaming :
        /\ req[r1].pc = "done" /\ req[r2].pc = "done"
        /\ EventTypes(req[r1].events) = <<"text", "citations", "done">>
        /\ EventTypes(req[r2].events) = <<"text", "error">>

Malformed == {"invalid_json", "missing_fields", "placeholder_ids"}

\* C8: a turn whose model output was malformed (not valid JSON, required
\* fields missing, placeholder ids) ends with a normal response: status 200
\* from chat, no error event from chat_stream.
C8_MalformedRecovered ==
    \A r \in Reqs :
        req[r].pc = "done" /\ req[r].reply \in Malformed =>
            IF req[r].endpoint = "chat"
            THEN req[r].response.status = 200
            ELSE \A k \in 1..Len(req[r].events) : req[r].events[k].type # "error"

(* Failed turns and interleaved turns in the chat history *)

\* the turn of r is over and failed: HTTP 500 from chat, an error event as
\* the last event of chat_stream
TurnFailed(r) ==
    /\ req[r].pc = "done"
    /\ IF req[r].endpoint = "chat"
       THEN req[r].response.status = 500
       ELSE req[r].events[Len(req[r].events)].type = "error"

\* no other request of the session of r has begun
SoleTurn(r) == \A q \in Reqs \ {r} : req[q].session_id # req[r].session_id

\* the failures the model call or the processing of its output causes
FailedInCall(r) ==
    TurnFailed(r) /\ req[r].reply \in {"provider_error", "invalid_json", "null_index"}

\* C26: a chat request that fails (the model call raises, the model output
\* cannot be parsed, or enrichment/normalization raises) leaves the session's
\* chat history as it was before the request, for both endpoints: after the
\* only request of a session failed, the session's log is empty as it was.
C26_FailureLeavesHistory ==
    \A r \in Reqs :
        FailedInCall(r) /\ SoleTurn(r) => chat_history[req[r].session_id] = <<>>

\* what holds of the code: the user message of the failed turn stays in the
\* log, alone
C26_FailureKeepsUserMessage ==
    \A r \in Reqs :
        FailedInCall(r) /\ SoleTurn(r) =>
            chat_history[req[r].session_id] = <<UserMessage(req[r].query)>>

\* the log is user, assistant, user, assistant, ...: every assistant message
\* directly follows a user message and no user message follows another
Alternates(log) ==
    \A k \in 1..Len(log) :
        log[k].role = IF k % 2 = 1 THEN "user" ELSE "assistant"

\* the lines of a history text are those of completed turns
CompletedTurns(lines) ==
    /\ Len(lines) % 2 = 0
    /\ \A k \in 1..Len(lines) :
          lines[k].speaker = IF k % 2 = 1 THEN "User" ELSE "Assistant"

\* the requests of session s that have begun
TurnsOf(s) == {r \in Reqs : req[r].session_id = s}

\* C27: when the chat requests of one session interleave at their model
\* calls and none of them fails, the session's history still pairs each turn:
\* every assistant message directly follows the user message of its turn, and
\* the history text given to the model for a turn contains only completed
\* turns.
C27_TurnsPaired ==
    \A s \in Sessions :
        (\A r \in TurnsOf(s) : ~TurnFailed(r)) =>
            /\ (\A r \in TurnsOf(s) : req[r].pc = "done") => Alternates(chat_history[s])
            /\ \A r \in TurnsOf(s) : CompletedTurns(req[r].history_text)

\* what holds of the code under any interleaving: the log of a session is
\* its messages in the order of their appends, so every assistant message
\* has a user message of its own before it, and a history text is the log as
\* it was when the turn began
C27_AppendOrder ==
    \A s \in Sessions :
        /\ \A k \in 1..Len(chat_history[s]) :
              Cardinality({j \in 1..k : chat_history[s][j].role = "assistant"})
                  <= Cardinality({j \in 1..k : chat_history[s][j].role = "user"})
        /\ Cardinality({j \in 1..Len(chat_history[s]) :
                           chat_history[s][j].role = "user"})
               = Cardinality(TurnsOf(s))
        /\ \A r \in TurnsOf(s) :
              /\ Len(req[r].history_text) < Len(chat_history[s])
              /\ \A k \in 1..Len(req[r].history_text) :
                    req[r].history_text[k].content = chat_history[s][k].content

(* Matrix first, documents as the fallback *)

Position(calls, name) ==
    IF \E k \in 1..Len(calls) : calls[k] = name
    THEN CHOOSE k \in 1..Len(calls) : calls[k] = name
    ELSE 0

Count(calls, name) == Cardinality({k \in 1..Len(calls) : calls[k] = name})

HighCount(matches) ==
    Cardinality({k \in 1..Len(matches) : matches[k].cell.confidence = "High"})

\* the condition the claim gives for a sufficient matrix
Sufficient(matches) == HighCount(matches) >= 2 \/ Len(matches) >= 4

\* C9: in both endpoints document retrieval is invoked, once, exactly when
\* the matrix matches are not sufficient (fewer than 2 High-confidence matches
\* and fewer than 4 matches); when they are sufficient the chunks given to the
\* model and doc_map are empty; matrix retrieval comes before the decision
\* and the decision before document retrieval.
C9_DocumentFallback ==
    \A r \in Reqs :
        req[r].pc # "idle" =>
            LET calls      == req[r].calls
                sufficient == Sufficient(req[r].cell_matches)
            IN  /\ Count(calls, "document_retrieve") = (IF sufficient THEN 0 ELSE 1)
                /\ sufficient =>
                       /\ req[r].doc_chunks = <<>>
                       /\ req[r].doc_map = <<>>
                       /\ req[r].document_text = NoDocumentSections
                /\ Count(calls, "matrix_retrieve") = 1
                /\ Position(calls, "matrix_retrieve")
                       < Position(calls, "has_sufficient_data")
                /\ ~sufficient =>
                       Position(calls, "has_sufficient_data")
                           < Position(calls, "document_retrieve")

\* a chat turn and a streamed turn, one answered from a sufficient matrix
\* without document retrieval, the other with chunks found by the fallback
C9_Witness ==
    \E r1, r2 \in Reqs :
        /\ req[r1].endpoint # req[r2].endpoint
        /\ req[r1].pc = "done" /\ req[r2].pc = "done"
        /\ Len(req[r1].cell_matches) >= 4
        /\ Count(req[r1].calls, "document_retrieve") = 0
        /\ Len(req[r2].cell_matches) = 1
        /\ Count(req[r2].calls, "document_retrieve") = 1
        /\ req[r2].doc_map # <<>>

(* Interleaved requests and the shared store *)

InFlight == {r \in Reqs : req[r].pc \in {"llm", "finishing"}}

\* what request r synced
OwnSync(r) == SyncContext(EmptyStore, req[r].matrix_context)

\* the retrievals of request r ran on what it synced itself
RetrievedOnOwnSync(r) ==
    /\ req[r].documents = OwnSync(r).documents
    /\ req[r].metrics = OwnSync(r).metrics
    /\ req[r].cells = OwnSync(r).cells
    /\ req[r].cell_matches =
           RetrieveCells(req[r].query, OwnSync(r).cells, OwnSync(r).metrics,
                         OwnSync(r).documents)
    /\ req[r].doc_chunks \in
           {<<>>, RetrieveChunks(req[r].query, OwnSync(r).documents)}

\* C10: the store is shared and holds what the request that synced last put
\* there, whichever requests are still in flight; but every request's matrix
\* and document retrieval ran on the documents, metrics and cells it synced
\* itself.
C10_RetrievalOnOwnSync ==
    /\ \A r \in Reqs : req[r].pc # "idle" => RetrievedOnOwnSync(r)
    /\ \/ store = EmptyStore /\ \A r \in Reqs : req[r].pc = "idle"
       \/ \E r \in Reqs : req[r].pc # "idle" /\ store = OwnSync(r)

\* two requests with different contexts are in flight and the store holds
\* the data of the second, not what the first synced
C10_Witness ==
    \E r1, r2 \in InFlight :
        /\ req[r1].matrix_context # req[r2].matrix_context
        /\ store = OwnSync(r2)
        /\ store # OwnSync(r1)

\* C10 as stated: when two requests with different contexts are in flight
\* together, the retrieval of one of them ran on what the other synced.
C10_RetrievalRaces ==
    \A r1, r2 \in InFlight :
        req[r1].matrix_context # req[r2].matrix_context =>
            ~RetrievedOnOwnSync(r1) \/ ~RetrievedOnOwnSync(r2)


(* One call of the model per request *)

CallFailed == {"invalid_json", "provider_error"}

ErrorEvents(events) == {k \in 1..Len(events) : events[k].type = "error"}

----------------------------------------------------------------------------
(* The store on its own: any sequence of its operations *)

\* a context whose documents repeat an id, and the empty context
CtxDup == [documents |-> <<Acme, Document("N_6F03AD", "Acme v2", "Revised."), Globex>>,
           metrics   |-> <<Metric("m1", "Revenue (EUR)"), Metric("m1", "Revenue")>>,
           cells     |-> <<Cell("N_6F03AD", "m1", "714m", "High")>>]

StoreContexts == {CtxA, CtxB, CtxC, CtxDup, EmptyStore}

StoreMessages == {UserMessage("What was the revenue"),
                  AssistantMessage(Text("714m ") \o T_Ref("1"), <<>>)}

InitStore ==
    /\ content = <<>> /\ raw_citations = <<>>
    /\ cell_map = <<>> /\ doc_map = <<>>
    /\ req = <<>>
    /\ result = [op |-> "none"]
    /\ store = EmptyStore
    /\ chat_history = [s \in Sessions |-> <<>>]

\* store.sync_context(matrix_context)
Sync ==
    /\ \E matrix_context \in StoreContexts :
          /\ store' = SyncContext(store, matrix_context)
          /\ result' = [op |-> "sync_context", matrix_context |-> matrix_context,
                        store_before |-> store, history_before |-> chat_history]
    /\ UNCHANGED <<content, raw_citations, cell_map, doc_map, req, chat_history>>

\* store.add_chat_message(session_id, message)
AddMessage ==
    /\ \E session_id \in Sessions, message \in StoreMessages :
          /\ Len(chat_history[session_id]) < MaxHistory
          /\ chat_history' = AddChatMessage(chat_history, session_id, message)
          /\ result' = [op |-> "add_chat_message", session_id |-> session_id,
                        history_before |-> chat_history]
    /\ UNCHANGED <<content, raw_citations, cell_map, doc_map, req, store>>

\* store.get_chat_history(session_id, limit)
GetHistory ==
    /\ \E session_id \in Sessions, limit \in 0..MaxLimit :
          result' = [op |-> "get_chat_history", session_id |-> session_id,
                     limit |-> limit, history_before |-> chat_history,
                     returned |-> GetChatHistory(chat_history, session_id, limit)]
    /\ UNCHANGED <<content, raw_citations, cell_map, doc_map, req, store,
                   chat_history>>

\* store.clear_chat_history(session_id), the endpoint POST /api/chat/clear
ClearHistory ==
    /\ \E session_id \in Sessions :
          /\ chat_history' = ClearChatHistory(chat_history, session_id)
          /\ result' = [op |-> "clear_chat_history", session_id |-> session_id,
                        history_before |-> chat_history]
    /\ UNCHANGED <<content, raw_citations, cell_map, doc_map, req, store>>

NextStore == Sync \/ AddMessage \/ GetHistory \/ ClearHistory

SpecStore == InitStore /\ [][NextStore]_vars

Ids(entries) == {entries[k].id : k \in 1..Len(entries)}

\* the entry a dict built from the list holds under id: the last one given
LastWithId(entries, id) ==
    entries[CHOOSE k \in 1..Len(entries) :
                /\ entries[k].id = id
                /\ \A j \in (k + 1)..Len(entries) : entries[j].id # id]

\* held is the dict of the entries given: one entry per id given, the last
\* one given under that id, and nothing else
HoldsExactly(held, given) ==
    /\ Len(held) = Cardinality(Ids(given))
    /\ Ids(held) = Ids(given)
    /\ \A k \in 1..Len(held) : held[k] = LastWithId(given, held[k].id)
    /\ Cardinality(Ids(given)) = Len(given) => held = given

\* C11: after sync_context(ctx) the store holds exactly the documents, the
\* metrics and the cells of ctx, whatever it held before (so after any
\* sequence of syncs it equals the last), and no session's chat history has
\* changed.
C11_SyncReplaces ==
    result.op = "sync_context" =>
        /\ HoldsExactly(store.documents, result.matrix_context.documents)
        /\ HoldsExactly(store.metrics, result.matrix_context.metrics)
        /\ HoldsExactly(store.cells, result.matrix_context.cells)
        /\ chat_history = result.history_before

\* a sync of a smaller context over a store that held another one, with a
\* chat history present
C11_Witness ==
    /\ result.op = "sync_context"
    /\ result.store_before.cells = CtxA.cells
    /\ result.matrix_context = CtxC
    /\ store.cells = CtxC.cells
    /\ \E s \in Sessions : Len(chat_history[s]) = 2


\* the most recent min(n, Len(log)) messages of log, in append order
MostRecent(log, n) ==
    LET m == Min(n, Len(log))
    IN  [k \in 1..m |-> log[Len(log) - m + k]]

\* C13: get_chat_history(session, N) returns the most recent min(N, length)
\* messages of the session's log in append order, never more than N, and
\* leaves every stored log as it was.
C13_HistoryTruncatedOnRead ==
    result.op = "get_chat_history" =>
        /\ result.returned =
               MostRecent(result.history_before[result.session_id], result.limit)
        /\ Len(result.returned) <= result.limit
        /\ chat_history = result.history_before

\* the same for a limit of at least 1
C13_TruncatedForPositiveLimit ==
    result.op = "get_chat_history" /\ result.limit >= 1 =>
        /\ result.returned =
               MostRecent(result.history_before[result.session_id], result.limit)
        /\ Len(result.returned) <= result.limit
        /\ chat_history = result.history_before


----------------------------------------------------------------------------
(* MatrixRetriever.retrieve on its own: store holds the arguments cells,    *)
(* metrics and documents, content the query                                 *)

\* metric ids of which one is a prefix of another
MetricPool ==
    { Metric("m1", "Revenue (EUR)"), Metric("m10", "Revenue growth"),
      Metric("m2", "CEO"), Metric("m3", "Leadership") }

\* every cell has a value of its own; one is the placeholder, one is empty,
\* one has no value and one belongs to a document that is not listed
CellPool ==
    << Cell("N_6F03AD", "m1", "714m", "High"),
       Cell("N_6F03AD", "m10", "5%", "Medium"),
       Cell("N_77AA10", "m1", Placeholder, "Exploratory"),
       Cell("N_77AA10", "m2", "Bob", "High"),
       Cell("N_77AA10", "m3", "", "Medium"),
       Cell("N_6F03AD", "m3", "Ann", "Medium"),
       Cell("N_6F03AD", "m2", NullStr, "Exploratory"),
       Cell("N_GONE00", "m1", "9m", "Medium") >>

\* the entries of pool whose position is in S, in the order of pool
RECURSIVE Pick(_, _, _)
Pick(pool, S, i) ==
    IF i > Len(pool) THEN <<>>
    ELSE (IF i \in S THEN <<pool[i]>> ELSE <<>>) \o Pick(pool, S, i + 1)

InitRetrieve ==
    /\ content \in {Text("What was the revenue"), Text("Who is the CEO?")}
    /\ \E S \in SUBSET (1..Len(CellPool)) :
       \E metrics \in SeqsOver(MetricPool, MaxMetrics) :
          store = [documents |-> <<Acme, Globex>>, metrics |-> metrics,
                   cells |-> Pick(CellPool, S, 1)]
    /\ raw_citations = <<>>
    /\ cell_map = <<>> /\ doc_map = <<>>
    /\ result = Pending
    /\ chat_history = <<>> /\ req = <<>>

RetrieveMatrix ==
    /\ result = Pending
    /\ result' = [status |-> "retrieved",
                  matches |-> MatrixRetrieve(content[1], store.cells, store.metrics,
                                             store.documents)]
    /\ UNCHANGED <<content, raw_citations, cell_map, doc_map, store, chat_history, req>>

NextRetrieve == RetrieveMatrix

SpecRetrieve == InitRetrieve /\ [][NextRetrieve]_vars

Retrieved == result # Pending /\ result.status = "retrieved"

\* C14: every match returned names the document and the metric of its cell:
\* the cell stored under the key doc_id-metric_id is the cell of the match.
C14_MatchNamesItsCell ==
    Retrieved =>
        \A k \in 1..Len(result.matches) :
            LET match == result.matches[k]
            IN  \E i \in 1..Len(store.cells) :
                   /\ store.cells[i].id = match.doc_id \o "-" \o match.metric_id
                   /\ store.cells[i].cell = match.cell

\* C15: the matches returned are sorted by non-increasing relevance_score,
\* every score is at least min_relevance and at most 1.0, and every cell
\* matched has a value that is not empty and not the placeholder.
C15_MatchesSortedAndRelevant ==
    Retrieved =>
        LET matches == result.matches
        IN  /\ \A k \in 1..(Len(matches) - 1) :
                   matches[k].relevance_score >= matches[k + 1].relevance_score
            /\ \A k \in 1..Len(matches) :
                   /\ matches[k].relevance_score >= min_relevance
                   /\ matches[k].relevance_score <= 10
                   /\ matches[k].cell.value \notin {NullStr, "", Placeholder}

\* a metric scoring 0.8 listed before one scoring 1.0, and cells without a
\* usable value among the cells of both
C15_Witness ==
    /\ Retrieved
    /\ Len(result.matches) = 2
    /\ result.matches[1].metric_id = "m3" /\ result.matches[1].relevance_score = 10
    /\ result.matches[2].metric_id = "m2" /\ result.matches[2].relevance_score = 8
    /\ store.metrics[1].id = "m2"
    /\ Len(store.cells) = Len(CellPool)


----------------------------------------------------------------------------
(* has_sufficient_data on its own: cell_map holds the matches *)

MatchOf(confidence) ==
    [CellMatch("N_6F03AD", "m1", "714m") EXCEPT !.cell.confidence = confidence]

MatchPool == { MatchOf("High"), MatchOf("Medium"), MatchOf("Exploratory") }

\* l with x inserted after its first n elements
InsertAt(l, n, x) == SubSeq(l, 1, n) \o <<x>> \o SubSeq(l, n + 1, Len(l))

InitSufficient ==
    /\ cell_map \in SeqsOver(MatchPool, MaxMatches)
    /\ content = <<>> /\ raw_citations = <<>>
    /\ doc_map = <<>>
    /\ result = Pending
    /\ NoServer

\* has_sufficient_data of the matches, and of the matches with one more
\* High-confidence match somewhere among them
Judge ==
    /\ result = Pending
    /\ \E t \in 0..MaxThreshold, n \in 0..Len(cell_map) :
          result' = [status |-> "judged", threshold |-> t, added_at |-> n,
                     before |-> HasSufficientDataAt(cell_map, t),
                     after |-> HasSufficientDataAt(
                                   InsertAt(cell_map, n, MatchOf("High")), t)]
    /\ UNCHANGED <<content, raw_citations, cell_map, doc_map, store, chat_history, req>>

NextSufficient == Judge

SpecSufficient == InitSufficient /\ [][NextSufficient]_vars

Judged == result # Pending /\ result.status = "judged"

\* C16: has_sufficient_data(matches, t) is true exactly when at least t
\* matches are of High confidence or there are at least 2t matches, and
\* adding a High-confidence match never turns it from true to false.
C16_SufficiencyMonotonic ==
    Judged =>
        /\ result.before <=>
              \/ HighCount(cell_map) >= result.threshold
              \/ Len(cell_map) >= 2 * result.threshold
        /\ result.before => result.after

\* the added match is what makes the matches sufficient, and a case where
\* they were sufficient already
C16_Witness ==
    /\ Judged
    /\ result.threshold = 2
    /\ HighCount(cell_map) = 1 /\ Len(cell_map) = 2
    /\ ~result.before /\ result.after


----------------------------------------------------------------------------
(* The document retriever on its own: store.documents holds the documents,  *)
(* content the query                                                        *)

Intro   == Document("N_6F03AD", "Acme", "INTRO\n\nrevenue up\n\nRISKS\n\ndebt is high")
Results == Document("N_77AA10", "Globex", "# Results\n\nSales fell.\n\nrevenue grew")
Plain   == Document("N_300000", "Initech", "no header here\n\nrevenue revenue risks")
Spaced  == Document("N_4B0000", "Hooli", "\n\n  lead in\n \nrevenue  \n\nEND\n\n")

ChunkDocs == {Intro, Results, Plain, Spaced}

\* chunk sizes that split the documents above, and the default
ChunkSizes == {12, 16, chunk_size}

InitChunks ==
    /\ content \in {Text("revenue risks"), Text("What was the debt")}
    /\ \E documents \in SeqsOver(ChunkDocs, MaxDocs) :
          store = [EmptyStore EXCEPT !.documents = documents]
    /\ raw_citations = <<>>
    /\ cell_map = <<>> /\ doc_map = <<>>
    /\ result = Pending
    /\ chat_history = <<>> /\ req = <<>>

\* DocumentRetriever(chunk_size=size)._chunk_document(doc)
Chunk ==
    /\ result = Pending
    /\ \E size \in ChunkSizes, d \in 1..Len(store.documents) :
          result' = [status |-> "chunked", size |-> size, doc |-> store.documents[d],
                     chunks |-> ChunkDocument(store.documents[d], size)]
    /\ UNCHANGED <<content, raw_citations, cell_map, doc_map, store, chat_history, req>>

\* DocumentRetriever(chunk_size=size).retrieve(query, documents, max, min_rel)
RetrieveDocuments ==
    /\ result = Pending
    /\ \E size \in ChunkSizes, max \in 0..MaxTop, min_rel \in {min_chunk_relevance, 5} :
          result' = [status |-> "chunks", size |-> size, max_chunks |-> max,
                     min_relevance |-> min_rel,
                     chunks |-> DocumentRetrieveWith(content[1], store.documents,
                                                     size, max, min_rel)]
    /\ UNCHANGED <<content, raw_citations, cell_map, doc_map, store, chat_history, req>>

NextChunks == Chunk \/ RetrieveDocuments

SpecChunks == InitChunks /\ [][NextChunks]_vars

\* every chunk of the documents with its score
AllScored(size) ==
    ScoredChunks(DocQueryTerms(content[1]), store.documents, 1, size, 0)

\* how often x occurs in the list l
Occurrences(l, x) == Cardinality({k \in 1..Len(l) : l[k] = x})

\* C17: retrieve returns at most max_chunks chunks of the documents, each
\* scoring at least min_relevance, sorted by non-increasing score, and every
\* chunk that met min_relevance and was left out scores no more than any
\* chunk returned.
C17_TopChunks ==
    result # Pending /\ result.status = "chunks" =>
        LET chunks == result.chunks
            all    == AllScored(result.size)
        IN  /\ Len(chunks) <= result.max_chunks
            /\ \A k \in 1..Len(chunks) :
                   /\ chunks[k].relevance_score >= result.min_relevance
                   /\ Occurrences(chunks, chunks[k]) <= Occurrences(all, chunks[k])
            /\ \A k \in 1..(Len(chunks) - 1) :
                   chunks[k].relevance_score >= chunks[k + 1].relevance_score
            /\ \A j \in 1..Len(all) :
                   /\ all[j].relevance_score >= result.min_relevance
                   /\ Occurrences(chunks, all[j]) < Occurrences(all, all[j])
                   => \A k \in 1..Len(chunks) :
                          chunks[k].relevance_score >= all[j].relevance_score

\* more chunks qualify than are returned, and the best of them is not the
\* first in document order
C17_Witness ==
    /\ result # Pending /\ result.status = "chunks"
    /\ result.max_chunks = 2 /\ Len(result.chunks) = 2
    /\ Len(SelectSeq(AllScored(result.size),
                     LAMBDA c : c.relevance_score >= result.min_relevance)) > 2
    /\ AllScored(result.size)[1].relevance_score < result.chunks[1].relevance_score


RECURSIVE NonBlank(_)
\* the paragraphs that are not blank, stripped, in order
NonBlank(paragraphs) ==
    IF paragraphs = <<>> THEN <<>>
    ELSE (IF Strip(Head(paragraphs)) = "" THEN <<>> ELSE <<Strip(Head(paragraphs))>>)
         \o NonBlank(Tail(paragraphs))

\* the paragraphs of the document that was chunked
ParagraphsOf(doc) == SplitParagraphs(doc.content, 1, 1)

\* the number of paragraphs joined into a chunk
ParagraphCount(chunk) == CountOcc(chunk.content, "\n\n") + 1

RECURSIVE LastParagraph(_, _)
\* the position, among the paragraphs, of the last paragraph of chunks[k]
LastParagraph(chunks, k) ==
    IF k = 0 THEN 0 ELSE LastParagraph(chunks, k - 1) + ParagraphCount(chunks[k])

\* the most recent header among the first n paragraphs, NullStr for none
SectionAt(paragraphs, n) ==
    LET headers == {j \in 1..n : HeaderMatch(Strip(paragraphs[j])) # NullStr}
    IN  IF headers = {} THEN NullStr
        ELSE HeaderMatch(Strip(paragraphs[SetMax(headers)]))

\* C18: every chunk of _chunk_document carries the section that was active
\* while its buffer was built: the most recent header among the paragraphs
\* up to and including the last paragraph of the chunk.
C18_ChunkSection ==
    result # Pending /\ result.status = "chunked" =>
        \A k \in 1..Len(result.chunks) :
            result.chunks[k].section =
                SectionAt(NonBlank(ParagraphsOf(result.doc)), LastParagraph(result.chunks, k))

\* the same for the last chunk of a document, which is flushed after the loop
C18_LastChunkSection ==
    result # Pending /\ result.status = "chunked" /\ result.chunks # <<>> =>
        LET k == Len(result.chunks)
        IN  /\ LastParagraph(result.chunks, k) = Len(NonBlank(ParagraphsOf(result.doc)))
            /\ result.chunks[k].section =
                   SectionAt(NonBlank(ParagraphsOf(result.doc)), LastParagraph(result.chunks, k))

RECURSIVE ChunkParagraphs(_, _)
\* the paragraphs of chunks[k], chunks[k+1], ... one after the other
ChunkParagraphs(chunks, k) ==
    IF k > Len(chunks) THEN <<>>
    ELSE NonBlank(SplitParagraphs(chunks[k].content, 1, 1))
         \o ChunkParagraphs(chunks, k + 1)

Chunked == result # Pending /\ result.status = "chunked"

C23_ChunkSizeBound ==
    Chunked =>
        \A k \in 1..Len(result.chunks) :
            ParagraphCount(result.chunks[k]) > 1 =>
                Len(result.chunks[k].content) <= result.size

\* the bound the test of the loop does give: the two characters of the last
\* separator are not counted
C23_ChunkSizeBoundJoined ==
    Chunked =>
        \A k \in 1..Len(result.chunks) :
            ParagraphCount(result.chunks[k]) > 1 =>
                Len(result.chunks[k].content) <= result.size + 2

-----------------------------------------------------------------------------
(* services/visualization.py: parse_numeric_value.  A float is held as the  *)
(* exact decimal mant * 10^exp with mant not divisible by 10, so that equal  *)
(* numbers are equal records: 714000000.0 is [mant |-> 714, exp |-> 6].      *)

DecimalDigits == "0123456789"

IsDecimalDigit(c) == \E i \in 1..Len(DecimalDigits) : Ch(DecimalDigits, i) = c

DigitValue(c) == (CHOOSE i \in 1..Len(DecimalDigits) : Ch(DecimalDigits, i) = c) - 1

RECURSIVE Dec(_, _)
Dec(mant, exp) ==
    IF mant = 0 THEN [mant |-> 0, exp |-> 0]
    ELSE IF mant % 10 = 0 THEN Dec(mant \div 10, exp + 1)
    ELSE [mant |-> mant, exp |-> exp]

\* float * multiplier, the multiplier being 10^power
Times(value, power) == Dec(value.mant, value.exp + power)

ValueError == [error |-> "ValueError"]

RECURSIVE DigitsValue(_, _)
\* the integer written by the digits of s, "." skipped; acc is the value so far
DigitsValue(s, acc) ==
    IF s = "" THEN acc
    ELSE IF Ch(s, 1) = "." THEN DigitsValue(SubSeq(s, 2, Len(s)), acc)
    ELSE DigitsValue(SubSeq(s, 2, Len(s)), 10 * acc + DigitValue(Ch(s, 1)))

\* float(s): surrounding whitespace, one optional sign, digits with at most
\* one point among them and at least one digit; anything else is a ValueError
Float(s) ==
    LET t      == Strip(s)
        signed == t # "" /\ Ch(t, 1) \in {"-", "+"}
        body   == IF signed THEN SubSeq(t, 2, Len(t)) ELSE t
        points == {i \in 1..Len(body) : Ch(body, i) = "."}
        point  == IF points = {} THEN Len(body) + 1 ELSE CHOOSE i \in points : TRUE
        digits == {i \in 1..Len(body) : IsDecimalDigit(Ch(body, i))}
        value  == DigitsValue(body, 0)
    IN  IF \/ Cardinality(points) > 1
           \/ digits = {}
           \/ \E i \in 1..Len(body) : i \notin digits /\ i \notin points
        THEN ValueError
        ELSE Dec(IF signed /\ Ch(t, 1) = "-" THEN 0 - value ELSE value,
                 0 - (IF points = {} THEN 0 ELSE Len(body) - point))

RECURSIVE Keep(_, _)
\* re.sub(r'[^\d...]', '', s): s without the characters that are neither
\* digits nor in chars
Keep(s, chars) ==
    IF s = "" THEN ""
    ELSE (IF Ch(s, 1) \in chars \/ IsDecimalDigit(Ch(s, 1)) THEN Ch(s, 1) ELSE "")
         \o Keep(SubSeq(s, 2, Len(s)), chars)

RECURSIVE Remove(_, _)
\* s.replace(c, '')
Remove(s, c) ==
    IF s = "" THEN ""
    ELSE (IF Ch(s, 1) = c THEN "" ELSE Ch(s, 1)) \o Remove(SubSeq(s, 2, Len(s)), c)

\* the positions where a match of [\d,]+\.?\d* that starts at s[i] can end
\* (one past its last character)
NumberEnds(s, i) ==
    { e \in (i + 1)..(Len(s) + 1) :
        \E a \in (i + 1)..e :
            /\ \A j \in i..(a - 1) : IsDecimalDigit(Ch(s, j)) \/ Ch(s, j) = ","
            /\ \E b \in {a, a + 1} :
                  /\ b <= e
                  /\ b = a + 1 => Ch(s, a) = "."
                  /\ \A j \in b..(e - 1) : IsDecimalDigit(Ch(s, j)) }

\* \s* covers s[a .. b-1]
Spaces(s, a, b) == \A j \in a..(b - 1) : IsSpace(Ch(s, j))

\* ^[\d,]+\.?\d*\s*<last>$ with re.IGNORECASE
NumberThen(s, last) ==
    /\ s # "" /\ LowerChar(Ch(s, Len(s))) = last
    /\ \E e \in NumberEnds(s, 1) : e <= Len(s) /\ Spaces(s, e, Len(s))

PERCENTAGE_PATTERN(s) == NumberThen(s, "%")

MULTIPLE_PATTERN(s) == NumberThen(s, "x")

Suffix == {"k", "m", "b"}

\* ^\$[\d,]+\.?\d*[kmb]?$
CurrencyLeadingDollar(s) ==
    /\ s # "" /\ Ch(s, 1) = "$"
    /\ \E e \in NumberEnds(s, 2) :
          \/ e = Len(s) + 1
          \/ e = Len(s) /\ LowerChar(Ch(s, e)) \in Suffix

\* ^[\d,]+\.?\d*[kmb]?\s*\$
CurrencyTrailingDollar(s) ==
    \E e \in NumberEnds(s, 1) :
        \E f \in {e, e + 1} :
            /\ f = e + 1 => e <= Len(s) /\ LowerChar(Ch(s, e)) \in Suffix
            /\ \E g \in f..Len(s) : Spaces(s, f, g) /\ Ch(s, g) = "$"

\* ^USD\s*[\d,]+\.?\d*  and  ^EUR\s*[\d,]+\.?\d*
CurrencyCode(s, code) ==
    /\ Len(s) > Len(code) /\ Lower(SubSeq(s, 1, Len(code))) = code
    /\ \E w \in (Len(code) + 1)..Len(s) :
          Spaces(s, Len(code) + 1, w) /\ NumberEnds(s, w) # {}

CURRENCY_PATTERNS(s) ==
    \/ CurrencyLeadingDollar(s)
    \/ CurrencyTrailingDollar(s)
    \/ CurrencyCode(s, "usd")
    \/ CurrencyCode(s, "eur")

\* the power of ten of the multiplier: 'k' in cleaned.lower(), elif 'm', elif 'b'
Multiplier(cleaned) ==
    IF Contains(Lower(cleaned), "k") THEN 3
    ELSE IF Contains(Lower(cleaned), "m") THEN 6
    ELSE IF Contains(Lower(cleaned), "b") THEN 9
    ELSE 0

NotNumeric == [parsed |-> FALSE]

Parsed(value, unit) == [parsed |-> TRUE, value |-> value, unit |-> unit]

\* float(num_str) inside try/except ValueError
TryFloat(num_str, power, unit) ==
    IF Float(num_str) = ValueError THEN NotNumeric
    ELSE Parsed(Times(Float(num_str), power), unit)

ParseNumericValue(value_str) ==
    LET cleaned == Strip(value_str)
    IN  IF value_str = "" \/ value_str = Placeholder \/ value_str = "Fault"
        THEN NotNumeric
        ELSE IF PERCENTAGE_PATTERN(cleaned)
        THEN TryFloat(Strip(Remove(Remove(cleaned, "%"), ",")), 0, "percentage")
        ELSE IF CURRENCY_PATTERNS(cleaned)
        THEN TryFloat(Remove(Keep(cleaned, {".", ","}), ","),
                      Multiplier(cleaned), "currency")
        ELSE IF MULTIPLE_PATTERN(cleaned)
        THEN TryFloat(Strip(Remove(Remove(cleaned, "x"), ",")), 0, "multiple")
        ELSE TryFloat(Remove(Keep(cleaned, {".", ",", "-", "+"}), ","), 0, "numeric")

(* parse_numeric_value on its own: content holds the cell value *)

Prefixes == {"", "$", "USD ", "EUR"}

Numbers == {"714", "1.5", "2,500", "7."}

Endings == {"", "k", "m", "b", "M", "%", " %", "x", "X", "$", "m$"}

ParseInputs ==
    { pre \o n \o e : pre \in Prefixes, n \in Numbers, e \in Endings }
    \cup {"", Placeholder, "Fault", "N/A", "-5", "+7", " 12 ", "1.5.2",
          "USD 1.5.2", "5-3", ".", "2.5 X", "USD 5 bank", "Q1-2024"}

InitParse ==
    /\ content \in ParseInputs
    /\ raw_citations = <<>>
    /\ cell_map = <<>> /\ doc_map = <<>>
    /\ result = Pending
    /\ NoServer

ParseValue ==
    /\ result = Pending
    /\ result' = [status |-> "parsed", value |-> ParseNumericValue(content)]
    /\ UNCHANGED <<content, raw_citations, cell_map, doc_map, store, chat_history, req>>

NextParse == ParseValue

SpecParse == InitParse /\ [][NextParse]_vars

ParsedValue == result # Pending /\ result.status = "parsed"

\* the power of ten a suffix stands for
SuffixPower(x) == CASE x = "k" -> 3 [] x = "m" -> 6 [] x = "b" -> 9

\* C19: a number carrying a k, m or b suffix parses to the number times 1e3,
\* 1e6 or 1e9 with unit "currency"; "714m" parses to (714000000.0, "currency").
C19_SuffixMultiplies ==
    ParsedValue =>
        /\ \A n \in Numbers, x \in Suffix :
              content = n \o x =>
                  result.value =
                      Parsed(Times(Float(Remove(n, ",")), SuffixPower(x)), "currency")
        /\ content = "714m" =>
              result.value = Parsed([mant |-> 714, exp |-> 6], "currency")

\* the same for a suffixed number written with a currency sign or code
C19_SuffixMultipliesCurrency ==
    ParsedValue =>
        \A pre \in Prefixes \ {""}, n \in Numbers, x \in Suffix :
            content = pre \o n \o x =>
                result.value =
                    Parsed(Times(Float(Remove(n, ",")), SuffixPower(x)), "currency")

-----------------------------------------------------------------------------
(* services/visualization.py: analyze_column_async.  cells is the dict of   *)
(* the request in its order, a sequence of [key, value]; the returned dict   *)
(* is carried with the fields the decision is made of.                       *)

NoSpec == [none |-> TRUE]

\* the raw_response dict of llm_service.generate_chart_spec, its values as
\* the JSON writes them; an absent key is NullStr
ChartSpec(should_render, intent, chart_type) ==
    [should_render |-> should_render, intent |-> intent, chart_type |-> chart_type]

LLMIntentType == {"TREND", "DELTA", "RELATIONSHIP", "COMPARISON", "DISTRIBUTION",
                  "COMPOSITION"}

LLMChartType == {"LINE", "AREA", "SLOPE", "SCATTER", "BOX", "HISTOGRAM",
                 "WATERFALL", "LOLLIPOP", "DELTA_BAR"}

\* LLMChartSpec(**raw_response) passes validation
ValidChartSpec(raw) ==
    /\ raw.should_render \in {"true", "false"}
    /\ raw.intent = NullStr \/ raw.intent \in LLMIntentType
    /\ raw.chart_type = NullStr \/ raw.chart_type \in LLMChartType
    /\ raw.should_render = "true" => raw.intent # NullStr /\ raw.chart_type # NullStr

\* the default of OpenAIService.generate_chart_spec when the chat completion
\* raises or its text is no JSON: {"should_render": False, "reason": ...}
DefaultChartSpec == ChartSpec("false", NullStr, NullStr)

\* what the awaited model call does: a dict, or "timeout" / "raises" (the
\* provider cannot be set up); "api_error" is the provider's default
ModelOutcomes ==
    { [kind |-> "render", raw |-> ChartSpec("true", "TREND", "LINE")],
      [kind |-> "no_render", raw |-> ChartSpec("false", NullStr, NullStr)],
      [kind |-> "api_error", raw |-> DefaultChartSpec],
      [kind |-> "invalid", raw |-> ChartSpec("true", NullStr, "LINE")],
      [kind |-> "invalid", raw |-> ChartSpec(NullStr, "TREND", "PIE")],
      [kind |-> "timeout", raw |-> NoSpec],
      [kind |-> "raises", raw |-> NoSpec] }

\* the values as a multiset: what str(sorted(values)) identifies
SortedValues(values) ==
    [v \in {values[i] : i \in 1..Len(values)} |->
        Cardinality({i \in 1..Len(values) : values[i] = v})]

\* ChartSpecCache._make_key
MakeKey(metric_label, values) ==
    [metric_label |-> metric_label, values |-> SortedValues(values)]

\* ChartSpecCache.get: the cached spec, NoSpec when there is none
CacheGet(cache, metric_label, values) ==
    LET hits == {e \in cache : e.key = MakeKey(metric_label, values)}
    IN  IF hits = {} THEN NoSpec ELSE (CHOOSE e \in hits : TRUE).spec

\* ChartSpecCache.set
CacheSet(cache, metric_label, values, spec) ==
    {e \in cache : e.key # MakeKey(metric_label, values)}
    \cup {[key |-> MakeKey(metric_label, values), spec |-> spec]}

\* generate_chart_spec_llm: the spec (NoSpec for None), the cache afterwards
\* and whether the model was called
GenerateChartSpecLlm(cache, metric_label, values, outcome) ==
    IF CacheGet(cache, metric_label, values) # NoSpec
    THEN [spec |-> CacheGet(cache, metric_label, values), cache |-> cache,
          called |-> FALSE]
    ELSE IF outcome.kind \in {"timeout", "raises"} \/ ~ValidChartSpec(outcome.raw)
    THEN [spec |-> NoSpec, cache |-> cache, called |-> TRUE]
    ELSE [spec |-> outcome.raw,
          cache |-> CacheSet(cache, metric_label, values, outcome.raw),
          called |-> TRUE]

\* the cell values of the columns analysed below
CellValues == {"12%", "$3k", "N/A", ""}

\* parse_numeric_value is a pure function: its values on the cell values
\* above are tabulated once, any other argument is computed on the spot
ParseTable == [v \in CellValues |-> ParseNumericValue(v)]

ParseCell(value_str) ==
    IF value_str \in CellValues THEN ParseTable[value_str]
    ELSE ParseNumericValue(value_str)

RECURSIVE MetricCells(_, _, _)
\* the first loop of analyze_column_async, from cells[i] on
MetricCells(cells, metric_id, i) ==
    IF i > Len(cells) THEN <<>>
    ELSE (IF Contains(cells[i].key, "-" \o metric_id) /\ cells[i].value # ""
          THEN <<cells[i].value>> ELSE <<>>)
         \o MetricCells(cells, metric_id, i + 1)

RECURSIVE ParsedCells(_, _)
\* the second loop: [value, unit_type, idx] of every cell that parses
ParsedCells(metric_cells, idx) ==
    IF idx > Len(metric_cells) THEN <<>>
    ELSE (IF ParseCell(metric_cells[idx]).parsed
          THEN <<[value |-> ParseCell(metric_cells[idx]).value,
                  unit_type |-> ParseCell(metric_cells[idx]).unit,
                  idx |-> idx - 1]>>
          ELSE <<>>)
         \o ParsedCells(metric_cells, idx + 1)

\* Counter(unit_types).most_common(1)[0][0]: the most frequent, the one met
\* first among equals; NullStr for None
MostCommonUnit(unit_types) ==
    LET count(u) == Cardinality({i \in 1..Len(unit_types) : unit_types[i] = u})
        first(u) == CHOOSE i \in 1..Len(unit_types) :
                        /\ unit_types[i] = u
                        /\ \A j \in 1..(i - 1) : unit_types[j] # u
    IN  IF unit_types = <<>> THEN NullStr
        ELSE CHOOSE u \in {unit_types[i] : i \in 1..Len(unit_types)} :
                 \A w \in {unit_types[i] : i \in 1..Len(unit_types)} :
                     \/ count(u) > count(w)
                     \/ count(u) = count(w) /\ first(u) <= first(w)

ColumnResponse(visualizable, most_common_unit, cardinality, parsed_values, value_doc_map, llm_powered) ==
    [visualizable |-> visualizable, data_type |-> most_common_unit,
     cardinality |-> cardinality, values |-> parsed_values,
     value_doc_indices |-> value_doc_map, llm_powered |-> llm_powered]

FallbackAnalyzeColumn(parsed_values, most_common_unit, value_doc_map, cardinality) ==
    ColumnResponse(cardinality >= 2 /\ most_common_unit # NullStr,
                   most_common_unit, cardinality, parsed_values, value_doc_map, FALSE)

LlmSpecToResponse(llm_spec, parsed_values, most_common_unit, value_doc_map, cardinality) ==
    IF llm_spec.should_render # "true"
    THEN ColumnResponse(FALSE, most_common_unit, cardinality, parsed_values,
                        value_doc_map, TRUE)
    ELSE ColumnResponse(cardinality >= 2 /\ most_common_unit # NullStr,
                        most_common_unit, cardinality, parsed_values,
                        value_doc_map, TRUE)

\* analyze_column_async from "Determine unit type" on, parsed being what the
\* two loops collected: the returned dict, the cache afterwards and whether
\* the model was called
AnalyzeParsed(metric_label, parsed, most_common_unit, use_llm, cache, outcome) ==
    LET parsed_values == [i \in 1..Len(parsed) |-> parsed[i].value]
        value_doc_map == [i \in 1..Len(parsed) |-> parsed[i].idx]
        fallback      == FallbackAnalyzeColumn(parsed_values, most_common_unit,
                                               value_doc_map, Len(parsed))
    IN  IF Len(parsed) < 2 \/ most_common_unit = NullStr \/ ~use_llm
        THEN [response |-> fallback, cache |-> cache, called |-> FALSE]
        ELSE LET llm == GenerateChartSpecLlm(cache, metric_label, parsed_values,
                                             outcome)
             IN  IF llm.spec # NoSpec /\ llm.spec.should_render = "true"
                 THEN [response |-> LlmSpecToResponse(llm.spec, parsed_values,
                                                      most_common_unit,
                                                      value_doc_map, Len(parsed)),
                       cache |-> llm.cache, called |-> llm.called]
                 ELSE [response |-> fallback, cache |-> llm.cache,
                       called |-> llm.called]

(* analyze_column_async on its own: cell_map holds the cells, content the    *)
(* chart settings, doc_map the cache of chart specs                          *)

ColumnMetrics == { Metric("m1", "Revenue"), Metric("m10", "Margin") }

CellKeys == <<"d1-m1", "d2-m1", "d1-m10", "d2-m10">>

InitAnalyze ==
    /\ \E values \in [1..Len(CellKeys) -> CellValues] :
          cell_map = [i \in 1..Len(CellKeys) |->
                         [key |-> CellKeys[i], value |-> values[i]]]
    /\ content \in {[use_llm |-> TRUE], [use_llm |-> FALSE]}
    /\ doc_map = {}
    /\ raw_citations = <<>>
    /\ result = Pending
    /\ NoServer

AnalyzeColumn ==
    /\ \E metric \in ColumnMetrics, outcome \in ModelOutcomes :
       \E parsed \in {ParsedCells(MetricCells(cell_map, metric.id, 1), 1)} :
       \E most_common_unit \in
              {MostCommonUnit([i \in 1..Len(parsed) |-> parsed[i].unit_type])} :
       \E a \in {AnalyzeParsed(metric.label, parsed, most_common_unit,
                               content.use_llm, doc_map, outcome)} :
          /\ result' = [status |-> "analyzed", metric_id |-> metric.id,
                        outcome |-> outcome.kind, called |-> a.called,
                        response |-> a.response]
          /\ doc_map' = a.cache
    /\ UNCHANGED <<content, raw_citations, cell_map, store, chat_history, req>>

\* the time to live of a cached spec runs out: get drops it at the next look
Expire ==
    /\ \E e \in doc_map : doc_map' = doc_map \ {e}
    /\ UNCHANGED <<content, raw_citations, cell_map, result, store, chat_history, req>>

NextAnalyze == AnalyzeColumn \/ Expire

SpecAnalyze == InitAnalyze /\ [][NextAnalyze]_vars

Analyzed == result # Pending /\ result.status = "analyzed"

\* s ends with suffix
EndsWith(s, suffix) ==
    Len(s) >= Len(suffix) /\ SubSeq(s, Len(s) - Len(suffix) + 1, Len(s)) = suffix

\* how many cells of the column of metric_id, the cells whose key is
\* "<doc id>-<metric_id>", parse as numbers
NumericInColumn(cells, metric_id) ==
    Cardinality({ i \in 1..Len(cells) :
                    /\ EndsWith(cells[i].key, "-" \o metric_id)
                    /\ ParseCell(cells[i].value).parsed })

\* C20: whatever the model call does, or with the model disabled, the column
\* is visualizable exactly when at least 2 of its cell values parse as numbers.
C20_VisualizableIffTwoNumeric ==
    Analyzed =>
        (result.response.visualizable <=>
            NumericInColumn(cell_map, result.metric_id) >= 2)

\* the same over the cells the analyzer collects for the column, and a model
\* answer of "do not render" is overridden by the rule-based path
C20_VisualizableIffTwoCollected ==
    Analyzed =>
        /\ result.response.visualizable <=> result.response.cardinality >= 2
        /\ result.called /\ result.outcome = "no_render"
              => result.response.visualizable /\ ~result.response.llm_powered

-----------------------------------------------------------------------------
(* services/visualization.py: analyze_matrix_async.  cell_map holds the     *)
(* cells, content the chart settings and the metrics, doc_map the cache of   *)
(* chart specs, req the tasks handed to asyncio.gather.  A cell carries      *)
(* number = TRUE when its JSON value is a number rather than a string; a     *)
(* metric label of NullStr is None.                                          *)

\* value.strip() of parse_numeric_value raises AttributeError on a number:
\* some cell that the loop over cells takes for metric_id is a number
ParseRaises(cells, metric_id) ==
    \E i \in 1..Len(cells) :
        /\ Contains(cells[i].key, "-" \o metric_id)
        /\ cells[i].value # ""
        /\ cells[i].number

\* metric_label.lower() of resolve_intent raises AttributeError on None
FallbackRaises(metric_label) == metric_label = NullStr

\* the 'safe default' of analyze_matrix_async
ErrorResult ==
    [visualizable |-> FALSE, cardinality |-> 0, values |-> <<>>,
     value_doc_indices |-> <<>>, error |-> TRUE]

\* the return value of a task that raised, as gather(return_exceptions=True)
\* hands it over
Raised == [raised |-> TRUE]

\* a task of analyze_column_async: at its model call, or finished
Task(metric, pc, parsed, most_common_unit, outcome, returned) ==
    [metric_id |-> metric.id, metric_label |-> metric.label, pc |-> pc,
     parsed |-> parsed, most_common_unit |-> most_common_unit,
     outcome |-> outcome, returned |-> returned]

\* what analyze_column_async returns or raises once its response is known
Returned(metric_label, response) ==
    IF ~response.llm_powered /\ FallbackRaises(metric_label) THEN Raised
    ELSE response

\* analyze_column_async up to its first suspension, parsed and
\* most_common_unit being what its loops collected: it has raised, returned
\* without the model (too few values, model disabled, cached spec), or it
\* awaits the model
StartTask(metric, cells, parsed, most_common_unit, use_llm, cache) ==
    IF ParseRaises(cells, metric.id)
    THEN Task(metric, "done", <<>>, NullStr, "none", Raised)
    ELSE IF /\ Len(parsed) >= 2 /\ most_common_unit # NullStr /\ use_llm
            /\ CacheGet(cache, metric.label,
                        [i \in 1..Len(parsed) |-> parsed[i].value]) = NoSpec
    THEN Task(metric, "llm", parsed, most_common_unit, "none", Pending)
    ELSE Task(metric, "done", parsed, most_common_unit, "none",
              Returned(metric.label,
                       AnalyzeParsed(metric.label, parsed, most_common_unit,
                                     use_llm, cache, [kind |-> "none"]).response))

RECURSIVE WithIds(_)
\* the metrics that have an id, in order
WithIds(metrics) ==
    IF metrics = <<>> THEN <<>>
    ELSE (IF Head(metrics).id # "" THEN <<Head(metrics)>> ELSE <<>>)
         \o WithIds(Tail(metrics))

\* "Build results dict": metric_id -> result, the later of two equal ids wins
BuildResults(tasks) ==
    [id \in {tasks[i].metric_id : i \in 1..Len(tasks)} |->
        LET last == SetMax({i \in 1..Len(tasks) : tasks[i].metric_id = id})
        IN  IF tasks[last].returned = Raised THEN ErrorResult
            ELSE tasks[last].returned]

\* what the await of gather has produced so far
Gathered(tasks) ==
    IF \A i \in 1..Len(tasks) : tasks[i].pc = "done"
    THEN [status |-> "completed", results |-> BuildResults(tasks)]
    ELSE [status |-> "gathering"]

MatrixMetrics ==
    { <<Metric("m1", "Revenue"), Metric("", "Notes"), Metric("m2", label)>> :
        label \in {"Margin", NullStr} }

MatrixKeys == <<"d1-m1", "d2-m1", "d1-m2", "d2-m2">>

MatrixCells ==
    { [value |-> "12%", number |-> FALSE], [value |-> "N/A", number |-> FALSE],
      [value |-> "714", number |-> TRUE] }

InitMatrix ==
    /\ \E values \in [1..Len(MatrixKeys) -> MatrixCells] :
          cell_map = [i \in 1..Len(MatrixKeys) |->
                         [key |-> MatrixKeys[i], value |-> values[i].value,
                          number |-> values[i].number]]
    /\ \E metrics \in MatrixMetrics, use_llm \in BOOLEAN :
          content = [use_llm |-> use_llm, metrics |-> metrics]
    /\ doc_map = {}
    /\ raw_citations = <<>>
    /\ result = Pending
    /\ req = <<>>
    /\ store = EmptyStore /\ chat_history = <<>>

\* analyze_matrix_async up to "await asyncio.gather": the first pass over the
\* cells, then every task runs up to its model call
AnalyzeMatrix ==
    /\ result = Pending
    /\ \E metrics \in {WithIds(content.metrics)} :
          IF \E i \in 1..Len(metrics) : ParseRaises(cell_map, metrics[i].id)
          THEN /\ result' = [status |-> "raised", error |-> "AttributeError"]
               /\ req' = req
          ELSE \E parsed \in {[i \in 1..Len(metrics) |->
                                 ParsedCells(MetricCells(cell_map, metrics[i].id, 1), 1)]} :
               \E units \in {[i \in 1..Len(metrics) |->
                                 MostCommonUnit([k \in 1..Len(parsed[i]) |->
                                                    parsed[i][k].unit_type])]} :
               \E tasks \in {[i \in 1..Len(metrics) |->
                                 StartTask(metrics[i], cell_map, parsed[i], units[i],
                                           content.use_llm, doc_map)]} :
                  /\ req' = tasks
                  /\ result' = Gathered(tasks)
    /\ UNCHANGED <<content, raw_citations, cell_map, doc_map, store, chat_history>>

\* the model call of task i ends: generate_chart_spec_llm validates and
\* caches, analyze_column_async returns, and gather returns with the last task
ModelReturns(i) ==
    /\ i \in 1..Len(req) /\ req[i].pc = "llm"
    /\ \E outcome \in ModelOutcomes :
       \E values \in {[k \in 1..Len(req[i].parsed) |-> req[i].parsed[k].value]} :
       \E a \in {AnalyzeParsed(req[i].metric_label, req[i].parsed,
                               req[i].most_common_unit, TRUE, {}, outcome)} :
       \E tasks \in {[req EXCEPT ![i].pc = "done", ![i].outcome = outcome.kind,
                                 ![i].returned =
                                     Returned(req[i].metric_label, a.response)]} :
          /\ req' = tasks
          /\ doc_map' = IF a.cache = {} THEN doc_map
                        ELSE CacheSet(doc_map, req[i].metric_label, values,
                                      outcome.raw)
          /\ result' = Gathered(tasks)
    /\ UNCHANGED <<content, raw_citations, cell_map, store, chat_history>>

NextMatrix == AnalyzeMatrix \/ \E i \in 1..Len(MatrixKeys) : ModelReturns(i)

SpecMatrix == InitMatrix /\ [][NextMatrix]_vars

BatchOver == result # Pending /\ result.status \in {"completed", "raised"}

\* what the column of task i is on its own: the analysis of its cells with
\* the outcome of its own model call
OwnResult(i) ==
    LET outcome == CHOOSE o \in ModelOutcomes \cup {[kind |-> "none"]} :
                       o.kind = req[i].outcome
    IN  Returned(req[i].metric_label,
                 AnalyzeParsed(req[i].metric_label, req[i].parsed,
                               req[i].most_common_unit, content.use_llm, {},
                               outcome).response)

\* C21: the batch always completes with one entry per metric that has an id;
\* a column whose analysis raised has the error result, and every other column
\* has the result of its own analysis, whatever the other model calls did and
\* in whatever order they ended.
C21_BatchCompletes ==
    BatchOver =>
        /\ result.status = "completed"
        /\ DOMAIN result.results =
               {WithIds(content.metrics)[i].id :
                   i \in 1..Len(WithIds(content.metrics))}
        /\ \A i \in 1..Len(req) :
              result.results[req[i].metric_id] =
                  IF OwnResult(i) = Raised THEN ErrorResult ELSE OwnResult(i)

\* the same when every cell value is a string
C21_BatchCompletesOnStrings ==
    BatchOver /\ (\A i \in 1..Len(cell_map) : ~cell_map[i].number) =>
        /\ result.status = "completed"
        /\ DOMAIN result.results =
               {WithIds(content.metrics)[i].id :
                   i \in 1..Len(WithIds(content.metrics))}
        /\ \A i \in 1..Len(req) :
              result.results[req[i].metric_id] =
                  IF OwnResult(i) = Raised THEN ErrorResult ELSE OwnResult(i)

-----------------------------------------------------------------------------
(* services/visualization.py: resolve_intent and select_chart_type.  The    *)
(* values of a column are integers here; a confidence is in hundredths.      *)

TIME_KEYWORDS ==
    <<"growth", "yoy", "y/y", "qoq", "q/q", "mom", "m/m", "annual", "quarterly",
      "monthly", "yearly", "trend", "change", "delta", "increase", "decrease",
      "over time", "historical", "forecast", "projection">>

COMPARISON_KEYWORDS ==
    <<"vs", "versus", "compared", "relative", "benchmark", "peer", "competitor",
      "industry", "average", "median">>

COMPOSITION_KEYWORDS ==
    <<"breakdown", "composition", "mix", "allocation", "segment", "share",
      "portion", "split">>

DELTA_WORDS == <<"change", "delta", "difference", "gain", "loss">>

\* sum(1 for kw in keywords if kw in label_lower)
KeywordScore(keywords, label_lower) ==
    Cardinality({k \in 1..Len(keywords) : Contains(label_lower, keywords[k])})

Intent(intent, confidence) == [intent |-> intent, confidence |-> confidence]

\* all_values_by_metric is a sequence of [label, values]
ResolveIntent(metric_label, values, unit_type, all_values_by_metric) ==
    LET label_lower       == Lower(metric_label)
        time_score        == KeywordScore(TIME_KEYWORDS, label_lower)
        composition_score == KeywordScore(COMPOSITION_KEYWORDS, label_lower)
        comparison_score  == KeywordScore(COMPARISON_KEYWORDS, label_lower)
    IN  IF time_score > 0
        THEN Intent("trend", Min(60 + time_score * 10, 95))
        ELSE IF composition_score > 0 /\ unit_type = "percentage"
        THEN Intent("composition", Min(50 + composition_score * 15, 90))
        ELSE IF comparison_score > 0
        THEN Intent("comparison", Min(50 + comparison_score * 15, 90))
        ELSE IF KeywordScore(DELTA_WORDS, label_lower) > 0
        THEN Intent("delta", 75)
        ELSE IF \E k \in 1..Len(all_values_by_metric) :
                   /\ all_values_by_metric[k].label # metric_label
                   /\ Len(all_values_by_metric[k].values) >= 3
        THEN Intent("relationship", 40)
        ELSE IF Len(values) >= 5
        THEN Intent("distribution", 70)
        ELSE Intent("comparison", 50)

RECURSIVE Sorted(_)
\* sorted(values)
Sorted(values) ==
    IF values = <<>> THEN <<>>
    ELSE LET least == CHOOSE i \in 1..Len(values) :
                          \A j \in 1..Len(values) : values[i] <= values[j]
         IN  <<values[least]>>
             \o Sorted(SubSeq(values, 1, least - 1)
                       \o SubSeq(values, least + 1, Len(values)))

\* the outlier test of select_chart_type; the indices are those of Python
\* plus one, and v < q1 - 1.5 * iqr is compared after doubling
HasOutliers(values) ==
    LET sorted_values == Sorted(values)
        q1  == sorted_values[(Len(values) \div 4) + 1]
        q3  == sorted_values[((3 * Len(values)) \div 4) + 1]
        iqr == q3 - q1
    IN  /\ iqr > 0
        /\ \E k \in 1..Len(values) :
              \/ 2 * sorted_values[k] < 2 * q1 - 3 * iqr
              \/ 2 * sorted_values[k] > 2 * q3 + 3 * iqr

SelectChartType(intent, values, unit_type) ==
    IF intent = "trend"
    THEN (IF unit_type = "percentage" THEN "area" ELSE "line")
    ELSE IF intent = "distribution"
    THEN (IF Len(values) >= 5 /\ HasOutliers(values) THEN "boxplot" ELSE "histogram")
    ELSE IF intent = "comparison" THEN "lollipop"
    ELSE IF intent = "delta" THEN "delta_bar"
    ELSE IF intent = "relationship" THEN "scatter"
    ELSE IF intent = "composition" THEN "histogram"
    ELSE "histogram"

(* resolve_intent and select_chart_type on their own: content holds the      *)
(* label, the unit and the values of the column, doc_map the other columns   *)

IntentLabels ==
    {"Revenue", "Revenue growth", "YoY change", "Segment mix", "Market share vs peers",
     "Net gain", "Loss difference", "Peer benchmark", "Growth of segment share"}

IntentUnits == {"percentage", "currency", "numeric", NullStr}

IntentValues ==
    { <<>>, <<1, 2>>, <<5, 3, 1, 4, 2>>, <<1, 1, 2, 2, 100>>, <<2, 2, 2, 2, 2>> }

OtherColumns(label) ==
    { <<>>,
      <<[label |-> label, values |-> <<1, 2, 3>>]>>,
      <<[label |-> "Headcount", values |-> <<1, 2>>]>>,
      <<[label |-> label, values |-> <<1, 2>>],
        [label |-> "Headcount", values |-> <<1, 2, 3>>]>> }

InitIntent ==
    /\ \E label \in IntentLabels, unit \in IntentUnits, values \in IntentValues :
          /\ content = [metric_label |-> label, unit_type |-> unit, values |-> values]
          /\ doc_map \in OtherColumns(label)
    /\ raw_citations = <<>> /\ cell_map = <<>>
    /\ result = Pending
    /\ NoServer

\* the first two steps of _fallback_analyze_column
Resolve ==
    /\ result = Pending
    /\ \E resolved \in {ResolveIntent(content.metric_label, content.values,
                                      content.unit_type, doc_map)} :
          result' = [status |-> "resolved", intent |-> resolved.intent,
                     intent_confidence |-> resolved.confidence,
                     chart_type |-> SelectChartType(resolved.intent, content.values,
                                                    content.unit_type)]
    /\ UNCHANGED <<content, raw_citations, cell_map, doc_map, store, chat_history, req>>

NextIntent == Resolve

SpecIntent == InitIntent /\ [][NextIntent]_vars

Resolved == result # Pending /\ result.status = "resolved"

HasKeyword(keywords) == KeywordScore(keywords, Lower(content.metric_label)) > 0

\* another numeric column: one of another label with 3 values or more
OtherNumericColumn ==
    \E k \in 1..Len(doc_map) :
        doc_map[k].label # content.metric_label /\ Len(doc_map[k].values) >= 3

\* the chart types the table of select_chart_type gives for an intent
ChartsOf(intent) ==
    CASE intent = "trend" -> {"line", "area"}
      [] intent = "distribution" -> {"histogram", "boxplot"}
      [] intent = "comparison" -> {"lollipop"}
      [] intent = "delta" -> {"delta_bar"}
      [] intent = "relationship" -> {"scatter"}
      [] intent = "composition" -> {"histogram"}

\* C24: the intent is trend for a trend keyword, else composition for a
\* composition keyword, else comparison for a comparison keyword, else delta
\* for a delta keyword, else relationship if another numeric column exists,
\* else distribution; and the intent always has a chart type of the table.
C24_IntentOrder ==
    Resolved =>
        /\ result.intent =
              IF HasKeyword(TIME_KEYWORDS) THEN "trend"
              ELSE IF HasKeyword(COMPOSITION_KEYWORDS) THEN "composition"
              ELSE IF HasKeyword(COMPARISON_KEYWORDS) THEN "comparison"
              ELSE IF HasKeyword(DELTA_WORDS) THEN "delta"
              ELSE IF OtherNumericColumn THEN "relationship"
              ELSE "distribution"
        /\ result.chart_type \in ChartsOf(result.intent)

\* the order the code follows: a composition keyword counts only for a column
\* of percentages, and the last resort is distribution from 5 values on and
\* comparison below
C24_IntentOrderOfCode ==
    Resolved =>
        /\ result.intent =
              IF HasKeyword(TIME_KEYWORDS) THEN "trend"
              ELSE IF HasKeyword(COMPOSITION_KEYWORDS)
                      /\ content.unit_type = "percentage" THEN "composition"
              ELSE IF HasKeyword(COMPARISON_KEYWORDS) THEN "comparison"
              ELSE IF HasKeyword(DELTA_WORDS) THEN "delta"
              ELSE IF OtherNumericColumn THEN "relationship"
              ELSE IF Len(content.values) >= 5 THEN "distribution"
              ELSE "comparison"
        /\ result.chart_type \in ChartsOf(result.intent)

-----------------------------------------------------------------------------
(* services/visualization.py: ChartSpecCache with its clock, and            *)
(* generate_chart_spec_llm over it.  content holds time.time() and the ttl   *)
(* the service was built with, doc_map the cache, whose entries carry their  *)
(* timestamp, and raw_citations what has been stored so far, expired or not. *)

MaxTtl   == 2      \* the ttl of the cache is one of 1..MaxTtl seconds
MaxTime  == 4      \* the clock runs from 0 to MaxTime

\* ChartSpecCache.get at time now: the spec of a live entry, NoSpec otherwise
TimedGet(cache, ttl, now, metric_label, values) ==
    LET hits == {e \in cache : e.key = MakeKey(metric_label, values)}
    IN  IF hits # {} /\ now - (CHOOSE e \in hits : TRUE).timestamp < ttl
        THEN (CHOOSE e \in hits : TRUE).spec
        ELSE NoSpec

\* the cache after ChartSpecCache.get at time now: an expired entry is deleted
AfterGet(cache, ttl, now, metric_label, values) ==
    {e \in cache : e.key = MakeKey(metric_label, values) => now - e.timestamp < ttl}

\* ChartSpecCache.set at time now
TimedSet(cache, now, metric_label, values, spec) ==
    {e \in cache : e.key # MakeKey(metric_label, values)}
    \cup {[key |-> MakeKey(metric_label, values), spec |-> spec, timestamp |-> now]}

CacheLabels == {"Revenue", "Margin"}

CacheValues == { <<12, 13>>, <<13, 12>> }

InitCache ==
    /\ \E ttl \in 1..MaxTtl : content = [now |-> 0, ttl |-> ttl]
    /\ doc_map = {}
    /\ raw_citations = {}
    /\ cell_map = <<>>
    /\ result = Pending
    /\ NoServer

\* time passes
Tick ==
    /\ content.now < MaxTime
    /\ content' = [content EXCEPT !.now = @ + 1]
    /\ UNCHANGED <<raw_citations, cell_map, doc_map, result, store, chat_history, req>>

\* the last spec stored for the key of (metric_label, values), if any
StoredFor(stored, metric_label, values) ==
    {e \in stored : e.key = MakeKey(metric_label, values)}

\* generate_chart_spec_llm(metric_label, values, ...): the cache is looked
\* up; on a miss the model is called, which takes took seconds, and a
\* validated response is stored
GenerateChartSpec ==
    /\ \E metric_label \in CacheLabels, values \in CacheValues :
       \E cached \in {TimedGet(doc_map, content.ttl, content.now, metric_label, values)} :
       \E looked \in {AfterGet(doc_map, content.ttl, content.now, metric_label, values)} :
       \E call \in {[status |-> "spec", metric_label |-> metric_label,
                     values |-> values, at |-> content.now,
                     before |-> StoredFor(raw_citations, metric_label, values)]} :
          IF cached # NoSpec
          THEN /\ doc_map' = looked
               /\ content' = content
               /\ raw_citations' = raw_citations
               /\ result' = call @@
                            [called |-> FALSE, stored |-> FALSE, failed |-> FALSE,
                             spec |-> cached]
          ELSE \E outcome \in ModelOutcomes, took \in {0, 1} :
               \E valid \in {/\ outcome.kind \notin {"timeout", "raises"}
                             /\ ValidChartSpec(outcome.raw)} :
               \E entry \in {[key |-> MakeKey(metric_label, values),
                              values |-> values, spec |-> outcome.raw,
                              timestamp |-> content.now + took]} :
                  /\ content.now + took <= MaxTime
                  /\ content' = [content EXCEPT !.now = @ + took]
                  /\ doc_map' = IF valid
                                THEN TimedSet(looked, content.now + took,
                                              metric_label, values, outcome.raw)
                                ELSE looked
                  /\ raw_citations' =
                         IF valid
                         THEN (raw_citations
                                  \ StoredFor(raw_citations, metric_label, values))
                              \cup {entry}
                         ELSE raw_citations
                  /\ result' = call @@
                               [called |-> TRUE, stored |-> valid,
                                failed |-> outcome.kind \notin {"render", "no_render"},
                                spec |-> IF valid THEN outcome.raw ELSE NoSpec]
    /\ UNCHANGED <<cell_map, store, chat_history, req>>

NextCache == Tick \/ GenerateChartSpec

SpecCache == InitCache /\ [][NextCache]_vars

Generated == result # Pending

\* the spec stored last for the key of the call is still alive at the call
Live ==
    \E e \in result.before : result.at - e.timestamp < content.ttl

\* C25: a call made less than ttl seconds after a spec was stored for its
\* label and values (in any order) returns that spec without calling the
\* model; any other call calls the model; and a spec is stored by exactly the
\* calls whose model response arrived and was validated: a call that timed
\* out, failed validation or raised stores nothing.
C25_CacheProtocol ==
    Generated =>
        /\ Live => /\ ~result.called
                   /\ \A e \in result.before : result.spec = e.spec
        /\ ~Live => result.called
        /\ result.stored <=> result.called /\ ~result.failed

\* what holds of the code: a spec is stored whenever generate_chart_spec
\* returned a dict that validates, the default it returns after an error of
\* the chat completion included; the cache holds, for every key, the spec
\* stored last or nothing
C25_CacheProtocolOfCode ==
    Generated =>
        /\ Live => /\ ~result.called
                   /\ \A e \in result.before : result.spec = e.spec
        /\ ~Live => result.called
        /\ result.stored <=> result.called /\ result.spec # NoSpec
        /\ ~result.stored =>
              StoredFor(raw_citations, result.metric_label, result.values)
                  = result.before
        /\ \A c \in doc_map : \E e \in raw_citations :
              c.key = e.key /\ c.spec = e.spec /\ c.timestamp = e.timestamp

\* a spec stored for the values in one order is served, a second later, for
\* the values in the other order
C25_ServedInOtherOrder ==
    /\ Generated /\ ~result.called
    /\ \E e \in result.before :
          e.values # result.values /\ result.at > e.timestamp

\* an expired spec is looked up, the model is called again and fails
C25_ExpiredThenFailed ==
    /\ Generated /\ result.called /\ ~result.stored
    /\ result.before # {} /\ ~Live
    /\ StoredFor(doc_map, result.metric_label, result.values) = {}

====
